---------------------------- MODULE Spec2Model ----------------------------
(***************************************************************************)
(* Verification model of the LinkedIn job applier.                         *)
(*                                                                         *)
(*   Spec        the LinkedIn side: the search, application and            *)
(*               authentication graphs, the per-item Easy Apply            *)
(*               sub-workflow and the two service entry points.            *)
(*   SpecOrch    the core agent (search -> filter -> apply) that calls     *)
(*               the services through the MCP client.                      *)
(*   SpecResolve the form-response resolver, a pure function.              *)
(*   SpecConc    service calls in flight at the same time, and the         *)
(*               browser sessions they start, drive and close.             *)
(*   SpecAnalyze analyze_form_node run twice on one open form.             *)
(*   SpecLabel   _get_field_label in front of one form field.              *)
(*   SpecSelect  click_easy_apply_node or submit_application_node in       *)
(*               front of a page, by the locators that resolve on it.      *)
(*                                                                         *)
(* The browser, the answer generator, the filtering model and the MCP      *)
(* client are the environment: a call into them that the code guards with  *)
(* try/except either returns or raises, chosen nondeterministically.  The  *)
(* graph engine follows the edges declared by each _create_graph /         *)
(* _build_graph and catches nothing.                                       *)
(***************************************************************************)
EXTENDS Integers, Sequences, FiniteSets, TLC

(* ------------------------------ bounds --------------------------------- *)
MaxLimit == 2
MaxPerPage == 2
MaxCards == 3
MaxRounds == 11
MaxFaults == 1
MaxApps == 2
MaxSearches == 2
MaxFound == 1
MaxAnswerLen == 2
MaxOptionLen == 2
MaxOptions == 2
MaxCalls == 2
MaxFields == 2

(* --------------------------- program constants ------------------------- *)
PageCap == 10

Min(a, b) == IF a < b THEN a ELSE b

RECURSIVE SeqsUpTo(_, _)
SeqsUpTo(S, n) ==
    IF n = 0 THEN {<<>>}
    ELSE LET shorter == SeqsUpTo(S, n - 1)
         IN  shorter \cup {Append(s, x) : s \in {t \in shorter : Len(t) = n - 1}, x \in S}

(***************************************************************************)
(* Form-response resolver.  Text is a sequence of characters; a character  *)
(* is a pair <<letter, upper>>, and lower() clears the upper flag.         *)
(***************************************************************************)
Chars == {<<"a", FALSE>>, <<"a", TRUE>>, <<"b", FALSE>>}
Answers == SeqsUpTo(Chars, MaxAnswerLen)
\* Option texts use one upper-case and one lower-case letter, so an option
\* can equal an answer exactly, equal it only ignoring case, or differ from
\* it.  analyze_form_node keeps an option only when its text is non-empty
\* (`if option.text.strip()`, `if radio_label`).
OptionChars == {<<"a", TRUE>>, <<"b", FALSE>>}
OptionTexts == SeqsUpTo(OptionChars, MaxOptionLen) \ {<<>>}

LowerChar(c) == <<c[1], FALSE>>
Lower(s) == [i \in 1..Len(s) |-> LowerChar(s[i])]

\* Python's `a in b` on strings: a occurs in b as a contiguous run.
Contains(a, b) ==
    \E k \in 0..(Len(b) - Len(a)) : \A i \in 1..Len(a) : b[k + i] = a[i]

DirectMatch(answer_lower, option) == answer_lower = Lower(option)

OptionContainsAnswerOnly(answer_lower, option) ==
    Contains(answer_lower, Lower(option))

PartialMatch(answer_lower, option) ==
    Contains(answer_lower, Lower(option)) \/ Contains(Lower(option), answer_lower)

\* lines 504-506: the first option, in list order, equal to the answer
\* ignoring case; <<>> (no option) when the loop ends without returning.
FirstDirectMatch(answer_lower, options) ==
    IF \E i \in 1..Len(options) : DirectMatch(answer_lower, options[i])
    THEN LET i == CHOOSE i \in 1..Len(options) :
                      /\ DirectMatch(answer_lower, options[i])
                      /\ \A j \in 1..(i - 1) : ~DirectMatch(answer_lower, options[j])
         IN  <<options[i]>>
    ELSE <<>>

\* lines 509-511: the first option, in list order, that contains the answer
\* or is contained in it, ignoring case.
FirstPartialMatch(answer_lower, options) ==
    IF \E i \in 1..Len(options) : PartialMatch(answer_lower, options[i])
    THEN LET i == CHOOSE i \in 1..Len(options) :
                      /\ PartialMatch(answer_lower, options[i])
                      /\ \A j \in 1..(i - 1) : ~PartialMatch(answer_lower, options[j])
         IN  <<options[i]>>
    ELSE <<>>

FindBestPartialFirst(answer, options) ==
    IF options = <<>> THEN <<>>
    ELSE LET answer_lower == Lower(answer)
             partial == FirstPartialMatch(answer_lower, options)
             direct == FirstDirectMatch(answer_lower, options)
         IN  IF partial # <<>> THEN partial[1]
             ELSE IF direct # <<>> THEN direct[1]
             ELSE options[1]

FindBestFallbackLast(answer, options) ==
    IF options = <<>> THEN <<>>
    ELSE LET answer_lower == Lower(answer)
             direct == FirstDirectMatch(answer_lower, options)
             partial == FirstPartialMatch(answer_lower, options)
         IN  IF direct # <<>> THEN direct[1]
             ELSE IF partial # <<>> THEN partial[1]
             ELSE options[Len(options)]

\* _find_best_option_match: "" is the empty text <<>>.
FindBestOptionMatch(answer, options) ==
    IF options = <<>> THEN <<>>
    ELSE LET answer_lower == Lower(answer)
             direct == FirstDirectMatch(answer_lower, options)
             partial == FirstPartialMatch(answer_lower, options)
         IN  IF direct # <<>> THEN direct[1]
             ELSE IF partial # <<>> THEN partial[1]
             ELSE options[1]

VARIABLES
    entry,               \* which entry point this behaviour invokes
    \* resolver
    r_answer, r_options, r_result, r_done,
    \* the site's search result pages and the browser's position in them
    perPage, totalCards, badMode, endless, navBroken, b_page,
    \* JobSearchState
    s_node, limit, swapped, current_page, collected_jobs, total_found,
    search_url, s_errors,
    \* history of the search run
    navs, faults, target_failed,
    \* AuthState
    auth_node, authenticated, auth_error,
    \* what _verify_authentication read as driver.current_url, the locators
    \* the nodes of the run waited for, in order, and the calls the nodes
    \* made to act on the page and to pace (random_delay), in order
    auth_url, auth_lookups, auth_calls,
    \* JobApplicationState
    a_node, applications, req_kind, current_application_index, application_results,
    current_application, job_application_agent, a_errors,
    \* EasyApplyState of the item being processed, and the history of its run
    e_node, e_success, e_error, e_current_step, form_questions, form_answers,
    e_open_unresolved, e_submit_clicked, e_confirm_timeout,
    \* history of the application run
    processed, unresolved_items, timeout_items,
    \* the service call: its position, its browser, what it returned or raised
    svc_pc, driver, creds_ok, svc_pending, svc_outcome, svc_result, svc_exc,
    \* JobApplicationAgentState of the core agent, and the locals of its nodes
    o_node, job_searches, search_pos, all_jobs, current_index, current_search_index,
    all_found_jobs, total_jobs_found, filtered_jobs, o_applications,
    o_application_results, total_jobs_applied, o_errors, current_status,
    \* history of the core agent's run
    search_returns, apply_call,
    \* trace ids: the one run generates, the one the nodes find in the state
    \* (0: none), the locals of the two nodes, and how many uuids were drawn
    run_trace_id, state_trace_id, search_trace_id, apply_trace_id, uuids,
    \* service calls in flight at the same time
    c_kind, c_pc, c_driving, mgr_driver, live, next_session,
    \* the open Easy Apply form and the outcome of each analyze_form_node run
    form_dom, analyze_ok, first_questions,
    \* what the page holds for one field in front of _get_field_label, the
    \* label it returned and how it ended ("no": it has not run)
    label_sources, label_result, label_done,
    \* the locators that resolve on the page in front of click_easy_apply_node
    \* or submit_application_node, the strategies a run looked up, the one
    \* whose element it clicked (0: none) and whether it waited for a
    \* confirmation
    sel_resolving, sel_tried, sel_clicked, sel_waited

resolveVars == <<r_answer, r_options, r_result, r_done>>
siteVars == <<perPage, totalCards, badMode, endless, navBroken>>
searchVars == <<b_page, s_node, limit, swapped, current_page, collected_jobs,
                total_found, search_url, s_errors, navs, faults, target_failed>>

authVars == <<auth_node, authenticated, auth_error, auth_url, auth_lookups,
              auth_calls>>
applyVars == <<a_node, applications, req_kind, current_application_index,
               application_results, current_application, job_application_agent,
               a_errors, processed, unresolved_items, timeout_items>>
easyVars == <<e_node, e_success, e_error, e_current_step, form_questions, form_answers,
              e_open_unresolved, e_submit_clicked, e_confirm_timeout>>
svcVars == <<svc_pc, driver, creds_ok, svc_pending, svc_outcome, svc_result, svc_exc>>
orchVars == <<o_node, job_searches, search_pos, all_jobs, current_index,
              current_search_index, all_found_jobs, total_jobs_found, filtered_jobs,
              o_applications, o_application_results, total_jobs_applied, o_errors,
              current_status, search_returns, apply_call, run_trace_id,
              state_trace_id, search_trace_id, apply_trace_id, uuids>>
concVars == <<c_kind, c_pc, c_driving, mgr_driver, live, next_session>>
analyzeVars == <<form_dom, analyze_ok, first_questions, label_sources, label_result,
                 label_done>>
selectVars == <<sel_resolving, sel_tried, sel_clicked, sel_waited>>
linkedinVars == <<siteVars, searchVars, authVars, applyVars, easyVars, svcVars>>

vars == <<entry, resolveVars, linkedinVars, orchVars, concVars, analyzeVars, selectVars>>

\* What the nodes of each graph leave alone.
searchFrame == <<entry, resolveVars, orchVars, concVars, analyzeVars, selectVars,
      siteVars, authVars, applyVars,
                 easyVars, svcVars>>
authFrame == <<entry, resolveVars, orchVars, concVars, analyzeVars, selectVars,
      siteVars, searchVars, applyVars,
               easyVars, svcVars>>
applyFrame == <<entry, resolveVars, orchVars, concVars, analyzeVars, selectVars,
      siteVars, searchVars, authVars,
                svcVars>>
svcFrame == <<entry, resolveVars, orchVars, concVars, analyzeVars, selectVars,
      siteVars>>
orchFrame == <<entry, resolveVars, linkedinVars, concVars, analyzeVars, selectVars>>
resolveFrame == <<entry, linkedinVars, orchVars, concVars, analyzeVars, selectVars>>
concFrame == <<entry, resolveVars, linkedinVars, orchVars, analyzeVars, selectVars>>
analyzeFrame == <<entry, resolveVars, orchVars, concVars, siteVars, searchVars, authVars,
                  applyVars, svcVars, selectVars>>
selectFrame == <<entry, resolveVars, orchVars, concVars, analyzeVars, siteVars, searchVars,
                 authVars, applyVars, svcVars>>

(***************************************************************************)
(* The site.  It serves totalCards job cards, perPage to a results page.   *)
(* Card j carries job id j, except that the identifier of a bad card       *)
(* cannot be parsed.  The next-page control is enabled on every page but   *)
(* the last; on an endless site it never reports disabled and activating   *)
(* it on the last page serves that page again.  On a site with navBroken   *)
(* every click on the control raises.  Besides what the site decides, the  *)
(* browser may raise spuriously, at most MaxFaults times in a run.         *)
(***************************************************************************)
BadModes == {"none", "all", "odd"}

NumPages == IF totalCards = 0 THEN 1 ELSE (totalCards + perPage - 1) \div perPage

CardBad(j) == badMode = "all" \/ (badMode = "odd" /\ j % 2 = 1)

\* The job id line 115-117 parses from card j; 0 stands for "no id".
CardJobId(j) == IF CardBad(j) THEN 0 ELSE j

CardsOnPage(p) ==
    IF p = 0 THEN 0 ELSE Min(perPage, totalCards - (p - 1) * perPage)

\* driver.find_elements(By.CLASS_NAME, "job-search-card") on page p
\* (p = 0: the browser is not on a results page).
PageCards(p) == [i \in 1..CardsOnPage(p) |-> CardJobId((p - 1) * perPage + i)]

NextButtonEnabled(p) == p >= 1 /\ (endless \/ p < NumPages)

PageAfterClick(p) == IF p < NumPages THEN p + 1 ELSE p

(***************************************************************************)
(* Which graph is executing.  A graph runs when its execute is the entry   *)
(* point of the behaviour or when a service has called it.                 *)
(***************************************************************************)
InService == entry \in {"search_service", "apply_service"}
SearchRunning ==
    entry = "search_graph" \/ (entry = "search_service" /\ svc_pc = "graph")
ApplyRunning ==
    entry = "apply_graph" \/ (entry = "apply_service" /\ svc_pc = "graph")
AuthRunning == InService /\ svc_pc = "authenticate"

(***************************************************************************)
(* Search graph (JobSearchGraph).                                          *)
(***************************************************************************)
CanCollectOffByOne(n, lim) == n <= lim

\* line 132: the guard of page_jobs.append
CanCollect(n, lim) == n < lim

RECURSIVE ExtractStopsAtBadCard(_, _, _, _, _)
ExtractStopsAtBadCard(cards, i, page_jobs, nCollected, lim) ==
    IF i > Len(cards) \/ cards[i] = 0 THEN page_jobs
    ELSE IF nCollected + Len(page_jobs) < lim
         THEN ExtractStopsAtBadCard(cards, i + 1, Append(page_jobs, cards[i]),
                                    nCollected, lim)
         ELSE ExtractStopsAtBadCard(cards, i + 1, page_jobs, nCollected, lim)

ExtractWholePage(cards, i, page_jobs, nCollected, lim) ==
    IF nCollected < lim THEN SelectSeq(cards, LAMBDA id : id # 0) ELSE <<>>

\* lines 108-142: the loop over the cards of one page; returns page_jobs.
RECURSIVE ExtractLoop(_, _, _, _, _)
ExtractLoop(cards, i, page_jobs, nCollected, lim) ==
    IF i > Len(cards) THEN page_jobs
    ELSE IF cards[i] = 0
         THEN ExtractLoop(cards, i + 1, page_jobs, nCollected, lim)
         ELSE IF CanCollect(nCollected + Len(page_jobs), lim)
              THEN ExtractLoop(cards, i + 1, Append(page_jobs, cards[i]), nCollected, lim)
              ELSE ExtractLoop(cards, i + 1, page_jobs, nCollected, lim)

\* state["browser_manager"] holds a BrowserManager (it has .driver).
BrowserUsable == ~swapped

SearchInitialState(lim, sw) ==
    /\ s_node = "build_search_url"
    /\ limit = lim
    /\ swapped = sw
    /\ current_page = 1
    /\ collected_jobs = <<>>
    /\ search_url = "None"
    /\ total_found = 0
    /\ s_errors = <<>>
    /\ b_page = 0
    /\ navs = 0
    /\ faults = 0
    /\ target_failed = FALSE

SearchIdle ==
    /\ s_node = "idle"
    /\ limit = 0
    /\ swapped = FALSE
    /\ current_page = 0
    /\ collected_jobs = <<>>
    /\ search_url = "None"
    /\ total_found = 0
    /\ s_errors = <<>>
    /\ b_page = 0
    /\ navs = 0
    /\ faults = 0
    /\ target_failed = FALSE

BuildSearchUrl ==
    /\ SearchRunning
    /\ UNCHANGED searchFrame
    /\ s_node = "build_search_url"
    /\ search_url' = "url"
    /\ current_page' = 1
    /\ s_node' = "navigate_to_search"
    /\ UNCHANGED <<b_page, limit, swapped, collected_jobs, total_found, s_errors,
                   navs, faults, target_failed>>

NavigateToSearch ==
    /\ SearchRunning
    /\ UNCHANGED searchFrame
    /\ s_node = "navigate_to_search"
    /\ s_node' = "extract_jobs_from_page"
    /\ \/ \* driver.get and the wait for the first card both succeed
          /\ BrowserUsable
          /\ CardsOnPage(1) > 0
          /\ b_page' = 1
          /\ UNCHANGED <<s_errors, faults, target_failed>>
       \/ \* the page loads but no card appears within the wait
          /\ BrowserUsable
          /\ CardsOnPage(1) = 0
          /\ b_page' = 1
          /\ s_errors' = Append(s_errors, "Failed to navigate to search")
          /\ target_failed' = TRUE
          /\ UNCHANGED faults
       \/ \* driver.get raises
          /\ BrowserUsable
          /\ faults < MaxFaults
          /\ faults' = faults + 1
          /\ b_page' = b_page
          /\ s_errors' = Append(s_errors, "Failed to navigate to search")
          /\ target_failed' = TRUE
       \/ \* state["browser_manager"] has no .driver
          /\ ~BrowserUsable
          /\ b_page' = b_page
          /\ s_errors' = Append(s_errors, "Failed to navigate to search")
          /\ UNCHANGED <<faults, target_failed>>
    /\ UNCHANGED <<limit, swapped, current_page, collected_jobs, total_found,
                   search_url, navs>>

ExtractJobsFromPage ==
    /\ SearchRunning
    /\ UNCHANGED searchFrame
    /\ s_node = "extract_jobs_from_page"
    /\ s_node' = "check_pagination"
    /\ \/ /\ BrowserUsable
          /\ LET page_jobs == ExtractLoop(PageCards(b_page), 1, <<>>,
                                          Len(collected_jobs), limit)
             IN  /\ collected_jobs' = collected_jobs \o page_jobs
                 /\ total_found' = total_found + Len(page_jobs)
          /\ UNCHANGED <<s_errors, faults, target_failed>>
       \/ \* find_elements raises
          /\ BrowserUsable
          /\ faults < MaxFaults
          /\ faults' = faults + 1
          /\ s_errors' = Append(s_errors, "Failed to extract jobs")
          /\ target_failed' = TRUE
          /\ UNCHANGED <<collected_jobs, total_found>>
       \/ /\ ~BrowserUsable
          /\ s_errors' = Append(s_errors, "Failed to extract jobs")
          /\ UNCHANGED <<collected_jobs, total_found, faults, target_failed>>
    /\ UNCHANGED <<b_page, limit, swapped, current_page, search_url, navs>>

CheckPagination ==
    /\ SearchRunning
    /\ UNCHANGED searchFrame
    /\ s_node = "check_pagination"
    /\ s_node' = "should_continue"
    /\ UNCHANGED <<b_page, limit, swapped, current_page, collected_jobs, total_found,
                   search_url, s_errors, navs, faults, target_failed>>

ShouldContinueIgnoresQuota ==
    IF swapped THEN {"raise"}
    ELSE IF current_page >= PageCap THEN {"finish"}
    ELSE (IF NextButtonEnabled(b_page) THEN {"continue"} ELSE {"finish"})
         \cup (IF faults < MaxFaults THEN {"fault"} ELSE {})

\* _should_continue_pagination, the conditional edge after check_pagination.
\* "raise" is an exception leaving the predicate.
ShouldContinueLabels ==
    IF swapped THEN {"raise"}                 \* int >= BrowserManager: TypeError
    ELSE IF Len(collected_jobs) >= limit THEN {"finish"}
    ELSE IF current_page >= PageCap THEN {"finish"}
    ELSE (IF NextButtonEnabled(b_page) THEN {"continue"} ELSE {"finish"})
         \cup (IF faults < MaxFaults THEN {"fault"} ELSE {})

ShouldContinuePagination ==
    /\ SearchRunning
    /\ UNCHANGED searchFrame
    /\ s_node = "should_continue"
    /\ \E label \in ShouldContinueLabels :
          /\ s_node' = CASE label = "continue" -> "navigate_next_page"
                         [] label = "finish" -> "END"
                         [] OTHER -> "raised"
          /\ faults' = IF label = "fault" THEN faults + 1 ELSE faults
          /\ target_failed' = (target_failed \/ label = "fault")
    /\ UNCHANGED <<b_page, limit, swapped, current_page, collected_jobs, total_found,
                   search_url, s_errors, navs>>

NavigateNextPage ==
    /\ SearchRunning
    /\ UNCHANGED searchFrame
    /\ s_node = "navigate_next_page"
    /\ navs < MaxRounds
    /\ navs' = navs + 1
    /\ s_node' = "extract_jobs_from_page"
    /\ \/ \* click, then a card of the new page appears
          /\ ~navBroken
          /\ CardsOnPage(PageAfterClick(b_page)) > 0
          /\ b_page' = PageAfterClick(b_page)
          /\ current_page' = current_page + 1
          /\ UNCHANGED <<s_errors, faults, target_failed>>
       \/ \* click, then no card appears within the wait
          /\ ~navBroken
          /\ CardsOnPage(PageAfterClick(b_page)) = 0
          /\ b_page' = PageAfterClick(b_page)
          /\ s_errors' = Append(s_errors, "Failed to navigate to next page")
          /\ target_failed' = TRUE
          /\ UNCHANGED <<current_page, faults>>
       \/ \* the click raises on this site
          /\ navBroken
          /\ b_page' = b_page
          /\ s_errors' = Append(s_errors, "Failed to navigate to next page")
          /\ target_failed' = TRUE
          /\ UNCHANGED <<current_page, faults>>
       \/ \* find_element or click raises spuriously
          /\ ~navBroken
          /\ faults < MaxFaults
          /\ faults' = faults + 1
          /\ b_page' = b_page
          /\ s_errors' = Append(s_errors, "Failed to navigate to next page")
          /\ target_failed' = TRUE
          /\ UNCHANGED current_page
    /\ UNCHANGED <<limit, swapped, collected_jobs, total_found, search_url>>


(***************************************************************************)
(* Authentication graph (LinkedInAuthGraph).  Every node catches what the  *)
(* browser raises and writes it to state["error"].                         *)
(***************************************************************************)
\* A reading of driver.current_url: not read yet, raised, or read, and then
\* whether the URL contains "/jobs/" and whether it contains "/login".
UrlReading(read, has_jobs, has_login) ==
    [read |-> read, has_jobs |-> has_jobs, has_login |-> has_login]

AuthIdle ==
    /\ auth_node = "idle"
    /\ authenticated = FALSE
    /\ auth_error = ""
    /\ auth_url = UrlReading("no", FALSE, FALSE)
    /\ auth_lookups = <<>>
    /\ auth_calls = <<>>

NavigateToLogin ==
    /\ AuthRunning
    /\ UNCHANGED authFrame
    /\ auth_node = "navigate_to_login"
    /\ auth_node' = "fill_credentials"
    /\ \/ /\ auth_calls' = auth_calls \o <<"get", "random_delay">>
          /\ UNCHANGED auth_error
       \/ \* driver.get raises: line 40 is not reached
          /\ auth_calls' = Append(auth_calls, "get")
          /\ auth_error' = "Failed to navigate to LinkedIn"
    /\ UNCHANGED <<authenticated, auth_url, auth_lookups>>

\* lines 52, 58 and 78-79: the one locator waited for per element
AuthLocators ==
    [email |-> "session_key",
     password |-> "session_password",
     sign_in |-> "button[data-id=\"sign-in-form__submit-btn\"]"]

FillCredentialsRaisesNotFound ==
    /\ AuthRunning
    /\ UNCHANGED authFrame
    /\ auth_node = "fill_credentials"
    /\ \/ /\ auth_lookups' = auth_lookups \o <<AuthLocators.email, AuthLocators.password>>
          /\ auth_calls' = auth_calls \o <<"send_keys", "random_delay",
                                           "send_keys", "random_delay">>
          /\ auth_node' = "submit_login"
          /\ UNCHANGED auth_error
       \/ /\ \/ /\ auth_lookups' = auth_lookups \o <<AuthLocators.email>>
                /\ UNCHANGED auth_calls
             \/ /\ auth_lookups' = auth_lookups \o <<AuthLocators.email, AuthLocators.password>>
                /\ auth_calls' = auth_calls \o <<"send_keys", "random_delay">>
          /\ auth_node' = "END"
          /\ UNCHANGED auth_error
    /\ UNCHANGED <<authenticated, auth_url>>

FillCredentials ==
    /\ AuthRunning
    /\ UNCHANGED authFrame
    /\ auth_node = "fill_credentials"
    /\ auth_node' = "submit_login"
    /\ \/ /\ auth_lookups' = auth_lookups \o <<AuthLocators.email, AuthLocators.password>>
          /\ auth_calls' = auth_calls \o <<"send_keys", "random_delay",
                                           "send_keys", "random_delay">>
          /\ UNCHANGED auth_error
       \/ \* TimeoutException of the first or of the second wait
          /\ \/ /\ auth_lookups' = auth_lookups \o <<AuthLocators.email>>
                /\ UNCHANGED auth_calls
             \/ /\ auth_lookups' = auth_lookups \o <<AuthLocators.email, AuthLocators.password>>
                /\ auth_calls' = auth_calls \o <<"send_keys", "random_delay">>
          /\ auth_error' = "Login form not found - page structure may have changed"
       \/ \* another exception: before the first wait, or from typing into
          \* the email field or into the password field (lines 54, 60),
          \* which skips the random_delay that follows it
          /\ \/ UNCHANGED <<auth_lookups, auth_calls>>
             \/ /\ auth_lookups' = auth_lookups \o <<AuthLocators.email>>
                /\ auth_calls' = Append(auth_calls, "send_keys")
             \/ /\ auth_lookups' = auth_lookups \o <<AuthLocators.email, AuthLocators.password>>
                /\ auth_calls' = auth_calls \o <<"send_keys", "random_delay", "send_keys">>
          /\ auth_error' = "Failed to fill credentials"
    /\ UNCHANGED <<authenticated, auth_url>>

SubmitLogin ==
    /\ AuthRunning
    /\ UNCHANGED authFrame
    /\ auth_node = "submit_login"
    /\ auth_node' = "verify_authentication"
    /\ \/ /\ auth_lookups' = Append(auth_lookups, AuthLocators.sign_in)
          /\ auth_calls' = auth_calls \o <<"click", "random_delay">>
          /\ UNCHANGED auth_error
       \/ \* TimeoutException of the wait
          /\ auth_lookups' = Append(auth_lookups, AuthLocators.sign_in)
          /\ auth_error' = "Sign In button not found"
          /\ UNCHANGED auth_calls
       \/ \* another exception, before the wait or from the click, which
          \* skips the random_delay of line 81
          /\ \/ UNCHANGED <<auth_lookups, auth_calls>>
             \/ /\ auth_lookups' = Append(auth_lookups, AuthLocators.sign_in)
                /\ auth_calls' = Append(auth_calls, "click")
          /\ auth_error' = "Failed to submit login"
    /\ UNCHANGED <<authenticated, auth_url>>

UrlHasJobsPattern(has_jobs, has_login) == has_jobs

\* line 100: "/jobs/" in current_url and "/login" not in current_url
UrlAuthenticated(has_jobs, has_login) == has_jobs /\ ~has_login

VerifyAuthentication ==
    /\ AuthRunning
    /\ UNCHANGED authFrame
    /\ auth_node = "verify_authentication"
    /\ auth_node' = "END"
    /\ UNCHANGED <<auth_lookups, auth_calls>>
    /\ \/ \E has_jobs \in BOOLEAN, has_login \in BOOLEAN :
             /\ auth_url' = UrlReading("yes", has_jobs, has_login)
             /\ IF UrlAuthenticated(has_jobs, has_login)
                THEN /\ authenticated' = TRUE
                     /\ UNCHANGED auth_error
                ELSE /\ authenticated' = FALSE
                     /\ auth_error' = "Login failed - still on login page"
       \/ \* driver.current_url raises
          /\ auth_url' = UrlReading("raised", FALSE, FALSE)
          /\ authenticated' = FALSE
          /\ auth_error' = "Authentication verification error"


(***************************************************************************)
(* Easy Apply sub-workflow (EasyApplyAgent.graph): five nodes joined by    *)
(* unconditional edges.  A question is modelled by its type, text and      *)
(* options, an answer by whether filling it succeeded.                     *)
(***************************************************************************)
Question(type, question, options) ==
    [type |-> type, question |-> question, options |-> options]

Forms ==
    {<<>>,
     <<Question("text", "Years of experience", <<>>)>>,
     <<Question("text", "Years of experience", <<>>),
       Question("select", "Country", <<"Spain">>)>>,
     <<Question("text", "Years of experience", <<>>),
       Question("text", "Years of experience", <<>>)>>}

EasyIdle ==
    /\ e_node = "idle"
    /\ e_success = FALSE
    /\ e_error = ""
    /\ e_current_step = "idle"
    /\ form_questions = <<>>
    /\ form_answers = <<>>
    /\ e_open_unresolved = FALSE
    /\ e_submit_clicked = FALSE
    /\ e_confirm_timeout = FALSE

EasyReset ==
    /\ e_node' = "idle"
    /\ e_success' = FALSE
    /\ e_error' = ""
    /\ e_current_step' = "idle"
    /\ form_questions' = <<>>
    /\ form_answers' = <<>>
    /\ e_open_unresolved' = FALSE
    /\ e_submit_clicked' = FALSE
    /\ e_confirm_timeout' = FALSE

\* apply_to_job lines 535-545: the initial EasyApplyState.
EasyStart ==
    /\ e_node' = "navigate_to_job"
    /\ e_success' = FALSE
    /\ e_error' = ""
    /\ e_current_step' = "starting"
    /\ form_questions' = <<>>
    /\ form_answers' = <<>>
    /\ e_open_unresolved' = FALSE
    /\ e_submit_clicked' = FALSE
    /\ e_confirm_timeout' = FALSE

NavigateToJob ==
    /\ ApplyRunning
    /\ UNCHANGED <<applyFrame, applyVars>>
    /\ e_node = "navigate_to_job"
    /\ e_node' = "click_easy_apply"
    /\ \/ /\ e_current_step' = "navigated_to_job"
          /\ UNCHANGED <<e_success, e_error>>
       \/ /\ e_success' = FALSE
          /\ e_error' = "Failed to navigate to job"
          /\ e_current_step' = "navigation_failed"
    /\ UNCHANGED <<form_questions, form_answers, e_open_unresolved, e_submit_clicked,
                   e_confirm_timeout>>

ClickEasyApply ==
    /\ ApplyRunning
    /\ UNCHANGED <<applyFrame, applyVars>>
    /\ e_node = "click_easy_apply"
    /\ e_node' = "analyze_form"
    /\ \/ \* a selector resolves and the button is clicked
          /\ e_current_step' = "easy_apply_clicked"
          /\ UNCHANGED <<e_success, e_error, e_open_unresolved>>
       \/ \* every selector raises NoSuchElementException
          /\ e_success' = FALSE
          /\ e_error' = "Easy Apply button not found"
          /\ e_current_step' = "easy_apply_not_found"
          /\ e_open_unresolved' = TRUE
       \/ \* find_element or click raises something else
          /\ e_success' = FALSE
          /\ e_error' = "Failed to click Easy Apply"
          /\ e_current_step' = "easy_apply_click_failed"
          /\ UNCHANGED e_open_unresolved
    /\ UNCHANGED <<form_questions, form_answers, e_submit_clicked, e_confirm_timeout>>

AnalyzeForm ==
    /\ ApplyRunning
    /\ UNCHANGED <<applyFrame, applyVars>>
    /\ e_node = "analyze_form"
    /\ e_node' = "fill_form"
    /\ \/ \E form \in Forms :
             /\ form_questions' = form
             /\ e_current_step' = "form_analyzed"
             /\ UNCHANGED <<e_success, e_error>>
       \/ \* the form modal does not appear within the wait
          /\ e_success' = FALSE
          /\ e_error' = "Failed to analyze form"
          /\ e_current_step' = "form_analysis_failed"
          /\ UNCHANGED form_questions
    /\ UNCHANGED <<form_answers, e_open_unresolved, e_submit_clicked, e_confirm_timeout>>

\* fill_form_node lines 267-335: form_answers starts as an empty dict and
\* every question stores its answer, or its "Error: ..." text, under the
\* question's text (lines 329 and 334); a later question with the same text
\* replaces the entry of an earlier one.
RECURSIVE FillAnswers(_, _, _, _)
FillAnswers(questions, outcomes, i, answers) ==
    IF i > Len(questions) THEN answers
    ELSE FillAnswers(questions, outcomes, i + 1,
                     [k \in (DOMAIN answers) \cup {questions[i].question} |->
                         IF k = questions[i].question THEN outcomes[i]
                         ELSE answers[k]])

FillForm ==
    /\ ApplyRunning
    /\ UNCHANGED <<applyFrame, applyVars>>
    /\ e_node = "fill_form"
    /\ e_node' = "submit_application"
    /\ \E outcomes \in [1..Len(form_questions) -> {"answer", "Error"}] :
          form_answers' = FillAnswers(form_questions, outcomes, 1, <<>>)
    /\ e_current_step' = "form_filled"
    /\ UNCHANGED <<e_success, e_error, form_questions, e_open_unresolved,
                   e_submit_clicked, e_confirm_timeout>>

SubmitOutcomes == {"not_found", "raise", "confirmed", "timeout", "wait_raise"}

SubmitReportsFailureOnTimeout(outcome) == outcome = "confirmed"

\* lines 407-420: both ways out of the confirmation wait report success
SubmitSucceeds(outcome) == outcome \in {"confirmed", "timeout"}

SubmitApplication ==
    /\ ApplyRunning
    /\ UNCHANGED <<applyFrame, applyVars>>
    /\ e_node = "submit_application"
    /\ e_node' = "END"
    /\ \E outcome \in SubmitOutcomes :
          /\ e_submit_clicked' = (outcome \in {"confirmed", "timeout", "wait_raise"})
          /\ e_confirm_timeout' = (outcome = "timeout")
          /\ e_success' = SubmitSucceeds(outcome)
          /\ e_error' =
                CASE outcome = "not_found" -> "Submit button not found"
                  [] outcome = "confirmed" -> e_error
                  [] outcome = "timeout" ->
                        "Application submitted but confirmation not detected"
                  [] OTHER -> "Failed to submit application"
          /\ e_current_step' =
                CASE outcome = "not_found" -> "submit_button_not_found"
                  [] outcome = "confirmed" -> "application_submitted"
                  [] outcome = "timeout" -> "application_submitted_no_confirmation"
                  [] OTHER -> "application_submit_failed"
    /\ UNCHANGED <<form_questions, form_answers, e_open_unresolved>>


(***************************************************************************)
(* Application graph (JobApplicationGraph).  A request is identified by    *)
(* its job id; req_kind tells whether the requests of this call are plain  *)
(* dicts ("dict": subscript access only, what ApplicationRequest declares) *)
(* or also give attribute access ("object").                               *)
(***************************************************************************)
JobIds == {1, 2}
ReqKinds == {"dict", "object"}

Result(job_id, success, error) ==
    [job_id |-> job_id, success |-> success, error |-> error]

SelectedApplicationFirst(apps, idx) == apps[1]

\* lines 73-75: state["applications"][state["current_application_index"]]
SelectedApplication(apps, idx) == apps[idx + 1]

\* apply_to_job line 537: application_request.monthly_salary
HasMonthlySalaryAttribute(kind) == kind = "object"

ApplyIdle ==
    /\ a_node = "idle"
    /\ applications = <<>>
    /\ req_kind = "dict"
    /\ current_application_index = 0
    /\ application_results = <<>>
    /\ current_application = 0
    /\ job_application_agent = "None"
    /\ a_errors = <<>>
    /\ processed = <<>>
    /\ unresolved_items = {}
    /\ timeout_items = {}

\* execute lines 129-138, then the entry point of the graph
ApplyInitialState(apps, kind) ==
    /\ a_node = "initialize_agent"
    /\ applications = apps
    /\ req_kind = kind
    /\ current_application_index = 0
    /\ application_results = <<>>
    /\ current_application = 0
    /\ job_application_agent = "None"
    /\ a_errors = <<>>
    /\ processed = <<>>
    /\ unresolved_items = {}
    /\ timeout_items = {}

InitializeAgent ==
    /\ ApplyRunning
    /\ UNCHANGED applyFrame
    /\ a_node = "initialize_agent"
    /\ a_node' = "select_next_application"
    /\ job_application_agent' = "agent"
    /\ current_application_index' = 0
    /\ UNCHANGED <<applications, req_kind, application_results, current_application,
                   a_errors, processed, unresolved_items, timeout_items, easyVars>>

SelectNextApplicationPops ==
    /\ ApplyRunning
    /\ UNCHANGED applyFrame
    /\ a_node = "select_next_application"
    /\ a_node' = "has_more_applications"
    /\ IF current_application_index < Len(applications)
       THEN /\ current_application' = Head(applications)
            /\ applications' = Tail(applications)
       ELSE UNCHANGED <<current_application, applications>>
    /\ UNCHANGED <<req_kind, current_application_index,
                   application_results, job_application_agent, a_errors, processed,
                   unresolved_items, timeout_items, easyVars>>

SelectNextApplication ==
    /\ ApplyRunning
    /\ UNCHANGED applyFrame
    /\ a_node = "select_next_application"
    /\ a_node' = "has_more_applications"
    /\ current_application' =
          IF current_application_index < Len(applications)
          THEN SelectedApplication(applications, current_application_index)
          ELSE current_application
    /\ UNCHANGED <<applications, req_kind, current_application_index,
                   application_results, job_application_agent, a_errors, processed,
                   unresolved_items, timeout_items, easyVars>>

\* _has_more_applications, the conditional edge after select_next_application
HasMoreApplications ==
    /\ ApplyRunning
    /\ UNCHANGED applyFrame
    /\ a_node = "has_more_applications"
    /\ a_node' = IF current_application_index < Len(applications)
                 THEN "process_application" ELSE "END"
    /\ UNCHANGED <<applications, req_kind, current_application_index,
                   application_results, current_application, job_application_agent,
                   a_errors, processed, unresolved_items, timeout_items, easyVars>>

ProcessApplicationLosesFailure ==
    /\ ApplyRunning
    /\ UNCHANGED applyFrame
    /\ a_node = "process_application"
    /\ e_node = "idle"
    /\ processed' = Append(processed, current_application)
    /\ IF HasMonthlySalaryAttribute(req_kind)
       THEN /\ EasyStart
            /\ UNCHANGED <<a_node, application_results, a_errors>>
       ELSE /\ a_errors' = Append(a_errors, "AttributeError")
            /\ a_node' = "record_result"
            /\ UNCHANGED <<application_results, easyVars>>
    /\ UNCHANGED <<applications, req_kind, current_application_index,
                   current_application, job_application_agent, unresolved_items,
                   timeout_items>>

\* _process_application up to the agent's graph.invoke: either apply_to_job
\* raises while building its initial state, which the except of lines 96-107
\* turns into an error result, or the sub-workflow starts.
ProcessApplication ==
    /\ ApplyRunning
    /\ UNCHANGED applyFrame
    /\ a_node = "process_application"
    /\ e_node = "idle"
    /\ processed' = Append(processed, current_application)
    /\ IF HasMonthlySalaryAttribute(req_kind)
       THEN /\ EasyStart
            /\ UNCHANGED <<a_node, application_results, a_errors>>
       ELSE /\ application_results' =
                  Append(application_results,
                         Result(current_application, FALSE,
                                "Application processing failed"))
            /\ a_errors' = Append(a_errors, "AttributeError")
            /\ a_node' = "record_result"
            /\ UNCHANGED easyVars
    /\ UNCHANGED <<applications, req_kind, current_application_index,
                   current_application, job_application_agent, unresolved_items,
                   timeout_items>>

ProcessApplicationReturnKeepsResults ==
    /\ ApplyRunning
    /\ UNCHANGED applyFrame
    /\ a_node = "process_application"
    /\ e_node = "END"
    /\ a_node' = "record_result"
    /\ EasyReset
    /\ UNCHANGED <<applications, req_kind, current_application_index,
                   current_application, job_application_agent, a_errors, processed,
                   application_results, unresolved_items, timeout_items>>

\* apply_to_job lines 548-556 and _process_application lines 91-94: the
\* sub-workflow has ended and its result is appended.
ProcessApplicationReturn ==
    /\ ApplyRunning
    /\ UNCHANGED applyFrame
    /\ a_node = "process_application"
    /\ e_node = "END"
    /\ application_results' =
          Append(application_results, Result(current_application, e_success, e_error))
    /\ unresolved_items' =
          IF e_open_unresolved
          THEN unresolved_items \cup {Len(application_results) + 1}
          ELSE unresolved_items
    /\ timeout_items' =
          IF e_submit_clicked /\ e_confirm_timeout
          THEN timeout_items \cup {Len(application_results) + 1}
          ELSE timeout_items
    /\ a_node' = "record_result"
    /\ EasyReset
    /\ UNCHANGED <<applications, req_kind, current_application_index,
                   current_application, job_application_agent, a_errors, processed>>

RecordResultSkipsOne ==
    /\ ApplyRunning
    /\ UNCHANGED applyFrame
    /\ a_node = "record_result"
    /\ a_node' = "select_next_application"
    /\ current_application_index' = current_application_index + 2
    /\ UNCHANGED <<applications, req_kind, application_results, current_application,
                   job_application_agent, a_errors, processed, unresolved_items,
                   timeout_items, easyVars>>

RecordResult ==
    /\ ApplyRunning
    /\ UNCHANGED applyFrame
    /\ a_node = "record_result"
    /\ a_node' = "select_next_application"
    /\ current_application_index' = current_application_index + 1
    /\ UNCHANGED <<applications, req_kind, application_results, current_application,
                   job_application_agent, a_errors, processed, unresolved_items,
                   timeout_items, easyVars>>


(***************************************************************************)
(* Service entry points: JobSearchService.search_jobs and                  *)
(* JobApplicationService.apply_to_jobs.  Both start a browser, run the     *)
(* authentication graph, call the graph's execute and close the browser    *)
(* in a finally block.                                                     *)
(***************************************************************************)
\* JobSearchGraph.execute, lines 218-225: its parameters in order.
SearchExecuteParameters ==
    <<"job_title", "location", "easy_apply", "limit", "authenticated_browser_manager">>

\* search_jobs lines 59-61: the positional arguments of the call.
SearchExecuteArguments ==
    <<"job_title", "location", "easy_apply", "browser_manager", "limit">>

ArgumentBoundTo(param) ==
    SearchExecuteArguments[CHOOSE i \in 1..Len(SearchExecuteParameters) :
                                SearchExecuteParameters[i] = param]

\* state["limit"] receives the browser manager and state["browser_manager"]
\* the limit.
SearchCallSwapsLimit == ArgumentBoundTo("limit") # "limit"

\* JobApplicationGraph.execute, lines 122-127: its parameters.
ApplyExecuteParameters == {"applications", "cv_analysis", "authenticated_browser_manager"}

\* apply_to_jobs lines 101-103: the keyword arguments of the call.
ApplyExecuteKeywords == {"trace_id"}

\* The call binds; otherwise Python raises TypeError before execute runs.
ApplyExecuteCallBinds == ApplyExecuteKeywords \subseteq ApplyExecuteParameters

\* search_jobs lines 64-67 read job["id"] and job["description"]; the jobs
\* the graph collects carry id_job and job_description.
ConvertedJobKeys == {"id", "description"}
CollectedJobKeys == {"id_job", "job_description"}

SvcIdle ==
    /\ svc_pc = "idle"
    /\ driver = "none"
    /\ creds_ok = TRUE
    /\ svc_pending = "none"
    /\ svc_outcome = "none"
    /\ svc_result = <<>>
    /\ svc_exc = ""

SvcInitialState(pc, creds) ==
    /\ svc_pc = pc
    /\ driver = "none"
    /\ creds_ok = creds
    /\ svc_pending = "none"
    /\ svc_outcome = "none"
    /\ svc_result = <<>>
    /\ svc_exc = ""

\* apply_to_jobs lines 75-81, before the try block.
ApplySvcCheckCredentials ==
    /\ InService
    /\ UNCHANGED svcFrame
    /\ entry = "apply_service"
    /\ svc_pc = "check_credentials"
    /\ IF creds_ok
       THEN /\ svc_pc' = "start_browser"
            /\ UNCHANGED <<svc_outcome, svc_exc>>
       ELSE /\ svc_pc' = "done"
            /\ svc_outcome' = "raised"
            /\ svc_exc' = "Email and password are required in user_credentials"
    /\ UNCHANGED <<driver, creds_ok, svc_pending, svc_result, searchVars, authVars,
                   applyVars, easyVars>>

\* start_browser: the driver is assigned before execute_script runs, so a
\* failure may leave a driver behind.  On success the service goes on to
\* auth_service.authenticate, whose initial state is AuthState(...).
SvcStartBrowser ==
    /\ InService
    /\ UNCHANGED svcFrame
    /\ svc_pc = "start_browser"
    /\ \/ /\ driver' = "open"
          /\ svc_pc' = "authenticate"
          /\ auth_node' = "navigate_to_login"
          /\ authenticated' = FALSE
          /\ auth_error' = ""
          /\ UNCHANGED <<auth_url, auth_lookups, auth_calls, svc_exc>>
       \/ /\ driver' \in {"none", "open"}
          /\ svc_pc' = "except"
          /\ svc_exc' = "start_browser failed"
          /\ UNCHANGED authVars
    /\ UNCHANGED <<creds_ok, svc_pending, svc_outcome, svc_result, searchVars,
                   applyVars, easyVars>>

AuthenticationNeverFails(auth_result_authenticated) == FALSE

\* search_jobs line 53 and apply_to_jobs line 94:
\* if not auth_result["authenticated"]: raise
AuthenticationFailed(auth_result_authenticated) == ~auth_result_authenticated

\* search_jobs lines 53-61
SearchSvcCheckAuth ==
    /\ InService
    /\ UNCHANGED svcFrame
    /\ entry = "search_service"
    /\ svc_pc = "authenticate"
    /\ auth_node = "END"
    /\ IF AuthenticationFailed(authenticated)
       THEN /\ svc_pc' = "except"
            /\ svc_exc' = "Authentication failed"
            /\ UNCHANGED searchVars
       ELSE /\ svc_pc' = "graph"
            /\ s_node' = "build_search_url"
            /\ swapped' = SearchCallSwapsLimit
            /\ current_page' = 1
            /\ collected_jobs' = <<>>
            /\ search_url' = "None"
            /\ total_found' = 0
            /\ s_errors' = <<>>
            /\ UNCHANGED <<svc_exc, limit, b_page, navs, faults, target_failed>>
    /\ UNCHANGED <<driver, creds_ok, svc_pending, svc_outcome, svc_result, authVars,
                   applyVars, easyVars>>

\* apply_to_jobs lines 94-103
ApplySvcCheckAuth ==
    /\ InService
    /\ UNCHANGED svcFrame
    /\ entry = "apply_service"
    /\ svc_pc = "authenticate"
    /\ auth_node = "END"
    /\ IF AuthenticationFailed(authenticated)
       THEN /\ svc_pc' = "except"
            /\ svc_exc' = "Authentication failed"
            /\ UNCHANGED <<a_node, job_application_agent>>
       ELSE IF ~ApplyExecuteCallBinds
       THEN /\ svc_pc' = "except"
            /\ svc_exc' = "execute() got an unexpected keyword argument 'trace_id'"
            /\ UNCHANGED <<a_node, job_application_agent>>
       ELSE /\ svc_pc' = "graph"
            /\ a_node' = "initialize_agent"
            /\ job_application_agent' = "None"
            /\ UNCHANGED svc_exc
    /\ UNCHANGED <<driver, creds_ok, svc_pending, svc_outcome, svc_result, authVars,
                   searchVars, applications, req_kind, current_application_index,
                   application_results, current_application, a_errors, processed,
                   unresolved_items, timeout_items, easyVars>>

\* search_jobs lines 63-71: the conversion of the graph's result, and the
\* except block that re-raises whatever the try block raised.
SearchSvcExit ==
    /\ InService
    /\ UNCHANGED svcFrame
    /\ entry = "search_service"
    /\ \/ svc_pc = "except"
       \/ svc_pc = "graph" /\ s_node \in {"END", "raised"}
    /\ svc_pc' = "finally"
    /\ IF svc_pc = "graph" /\ s_node = "END"
          /\ (collected_jobs = <<>> \/ ConvertedJobKeys \subseteq CollectedJobKeys)
       THEN /\ svc_pending' = "return"
            /\ svc_result' = collected_jobs
            /\ UNCHANGED svc_exc
       ELSE /\ svc_pending' = "raise"
            /\ svc_exc' = "Job search failed"
            /\ UNCHANGED svc_result
    /\ UNCHANGED <<driver, creds_ok, svc_outcome, searchVars, authVars, applyVars,
                   easyVars>>

\* apply_to_jobs lines 115-124: one error record for every application.
ErrorRecords(apps) ==
    [i \in 1..Len(apps) |-> [id_job |-> apps[i], success |-> FALSE,
                             error |-> "Application workflow failed"]]

\* apply_to_jobs lines 105-113
ConvertResults(raw_results) ==
    [i \in 1..Len(raw_results) |-> [id_job |-> raw_results[i].job_id,
                                    success |-> raw_results[i].success,
                                    error |-> raw_results[i].error]]

ApplySvcExit ==
    /\ InService
    /\ UNCHANGED svcFrame
    /\ entry = "apply_service"
    /\ \/ svc_pc = "except"
       \/ svc_pc = "graph" /\ a_node = "END"
    /\ svc_pc' = "finally"
    /\ svc_pending' = "return"
    /\ svc_result' = IF svc_pc = "except"
                     THEN ErrorRecords(applications)
                     ELSE ConvertResults(application_results)
    /\ UNCHANGED <<driver, creds_ok, svc_outcome, svc_exc, searchVars, authVars,
                   applyVars, easyVars>>

\* The finally block: close_browser quits the driver if there is one; then
\* the pending return or raise takes effect.
SvcFinally ==
    /\ InService
    /\ UNCHANGED svcFrame
    /\ svc_pc = "finally"
    /\ svc_pc' = "done"
    /\ driver' = IF driver = "open" THEN "closed" ELSE driver
    /\ svc_outcome' = IF svc_pending = "return" THEN "returned" ELSE "raised"
    /\ UNCHANGED <<creds_ok, svc_pending, svc_result, svc_exc, searchVars, authVars,
                   applyVars, easyVars>>

(***************************************************************************)
(* Core agent (JobApplicationAgent): search_jobs_node -> filter_jobs_node  *)
(* -> apply_to_jobs_node -> END.  A search request is identified by its    *)
(* position in job_searches and a job by its id_job.  LinkedInMCPClientSync *)
(* and the filtering model are the environment of the nodes.               *)
(***************************************************************************)
OrchRunning == entry = "agent_run"

\* The keys JobApplicationAgentState declares.
DeclaredStateKeys ==
    {"job_searches", "cv_file_path", "cv_content", "user_credentials",
     "current_search_index", "all_found_jobs", "filtered_jobs", "application_results",
     "cv_analysis", "conversation_history", "errors", "total_jobs_found",
     "total_jobs_applied", "current_status"}

\* StateGraph(JobApplicationAgentState): the graph has one channel per
\* declared key; a key of the input or of a node's return value that is not
\* declared has no channel and is not part of the state the next node, or
\* the caller of invoke, receives.  0 stands for an absent key.
StateValue(key, value) == IF key \in DeclaredStateKeys THEN value ELSE 0

\* state.get("trace_id", str(uuid.uuid4()))
NodeTraceId(in_state, fresh) == IF in_state # 0 THEN in_state ELSE fresh

OrchIdle ==
    /\ o_node = "idle"
    /\ job_searches = <<>>
    /\ search_pos = 0
    /\ all_jobs = <<>>
    /\ current_index = 0
    /\ current_search_index = 0
    /\ all_found_jobs = <<>>
    /\ total_jobs_found = 0
    /\ filtered_jobs = <<>>
    /\ o_applications = <<>>
    /\ o_application_results = <<>>
    /\ total_jobs_applied = 0
    /\ o_errors = <<>>
    /\ current_status = "idle"
    /\ search_returns = <<>>
    /\ apply_call = "none"
    /\ run_trace_id = 0
    /\ state_trace_id = 0
    /\ search_trace_id = 0
    /\ apply_trace_id = 0
    /\ uuids = 0

\* run, lines 286-311, then the entry point of the graph
OrchInitialState(searches) ==
    /\ o_node = "search_jobs_node"
    /\ job_searches = searches
    /\ search_pos = 0
    /\ all_jobs = <<>>
    /\ current_index = 0
    /\ current_search_index = 0
    /\ all_found_jobs = <<>>
    /\ total_jobs_found = 0
    /\ filtered_jobs = <<>>
    /\ o_applications = <<>>
    /\ o_application_results = <<>>
    /\ total_jobs_applied = 0
    /\ o_errors = <<>>
    /\ current_status = "Starting job application workflow"
    /\ search_returns = <<>>
    /\ apply_call = "none"
    /\ run_trace_id = 1                       \* line 271: the first uuid drawn
    /\ uuids = 1
    /\ state_trace_id = StateValue("trace_id", 1)
    /\ search_trace_id = 0
    /\ apply_trace_id = 0

\* search_jobs_node lines 58-65: the locals, then the client is constructed
\* inside the outer try; if that raises, lines 100-106 return the state with
\* one more error and all_found_jobs as it was.
SearchJobsNodeEnter ==
    /\ OrchRunning
    /\ UNCHANGED orchFrame
    /\ o_node = "search_jobs_node"
    /\ search_pos = 0
    /\ all_jobs' = <<>>
    /\ current_index' = 0
    /\ uuids' = uuids + 1                      \* line 55 evaluates the default
    /\ search_trace_id' = NodeTraceId(state_trace_id, uuids + 1)
    /\ \/ /\ search_pos' = 1
          /\ UNCHANGED <<o_node, o_errors, current_status>>
       \/ /\ o_node' = "filter_jobs_node"
          /\ o_errors' = Append(o_errors, "Job search failed")
          /\ current_status' = "Job search failed"
          /\ UNCHANGED search_pos
    /\ UNCHANGED <<job_searches, current_search_index, all_found_jobs, total_jobs_found,
                   filtered_jobs, o_applications, o_application_results,
                   total_jobs_applied, search_returns, apply_call, run_trace_id,
                   state_trace_id, apply_trace_id>>

StopAfterFailedRequest(pos, n) == n + 1

\* lines 67 and 88-90: the except block falls through to the next iteration
\* of the for loop.
NextAfterFailedRequest(pos, n) == pos + 1

\* line 85: all_jobs.extend(jobs)
Extend(jobs_so_far, jobs) == jobs_so_far \o jobs

\* One iteration of the for loop of lines 67-90.
SearchJobsRequest ==
    /\ OrchRunning
    /\ UNCHANGED orchFrame
    /\ o_node = "search_jobs_node"
    /\ search_pos \in 1..Len(job_searches)
    /\ \/ \E jobs \in SeqsUpTo(JobIds, MaxFound) :
             /\ all_jobs' = Extend(all_jobs, jobs)
             /\ current_index' = current_index + 1
             /\ search_returns' =
                   Append(search_returns,
                          [request |-> job_searches[search_pos], ok |-> TRUE,
                           jobs |-> jobs, trace_id |-> search_trace_id])
             /\ search_pos' = search_pos + 1
             /\ UNCHANGED o_errors
       \/ \* mcp_client.search_jobs raises
          /\ o_errors' = Append(o_errors, "Failed to search jobs")
          /\ search_returns' =
                Append(search_returns,
                       [request |-> job_searches[search_pos], ok |-> FALSE,
                        jobs |-> <<>>, trace_id |-> search_trace_id])
          /\ search_pos' = NextAfterFailedRequest(search_pos, Len(job_searches))
          /\ UNCHANGED <<all_jobs, current_index>>
    /\ UNCHANGED <<o_node, job_searches, current_search_index, all_found_jobs,
                   total_jobs_found, filtered_jobs, o_applications,
                   o_application_results, total_jobs_applied, current_status,
                   apply_call, run_trace_id, state_trace_id, search_trace_id,
                   apply_trace_id, uuids>>

\* lines 92-98
SearchJobsNodeReturn ==
    /\ OrchRunning
    /\ UNCHANGED orchFrame
    /\ o_node = "search_jobs_node"
    /\ search_pos > Len(job_searches)
    /\ o_node' = "filter_jobs_node"
    /\ current_search_index' = current_index
    /\ all_found_jobs' = all_jobs
    /\ total_jobs_found' = Len(all_jobs)
    /\ current_status' = "Found jobs"
    /\ UNCHANGED <<job_searches, search_pos, all_jobs, current_index, filtered_jobs,
                   o_applications, o_application_results, total_jobs_applied, o_errors,
                   search_returns, apply_call, run_trace_id, state_trace_id,
                   search_trace_id, apply_trace_id, uuids>>

\* What the filtering model does for one job: its answer contains YES, it
\* does not, or the call raises.
Decisions == {"YES", "NO", "raise"}

KeptOnYesOnly(decision) == decision = "YES"

\* lines 167-172: a job is kept on YES and when the call raised
Kept(decision) == decision \in {"YES", "raise"}

\* lines 143-174: the loop over all_found_jobs; returns filtered_jobs.
RECURSIVE FilterLoop(_, _, _)
FilterLoop(jobs, decisions, i) ==
    IF i > Len(jobs) THEN <<>>
    ELSE (IF Kept(decisions[i]) THEN <<jobs[i]>> ELSE <<>>)
         \o FilterLoop(jobs, decisions, i + 1)

\* lines 173-174: one error for every job whose call raised
RECURSIVE FilterErrors(_, _)
FilterErrors(decisions, i) ==
    IF i > Len(decisions) THEN <<>>
    ELSE (IF decisions[i] = "raise" THEN <<"Filtering failed, including by default">>
          ELSE <<>>)
         \o FilterErrors(decisions, i + 1)

FilterJobsNode ==
    /\ OrchRunning
    /\ UNCHANGED orchFrame
    /\ o_node = "filter_jobs_node"
    /\ o_node' = "apply_to_jobs_node"
    /\ \/ \E decisions \in [1..Len(all_found_jobs) -> Decisions] :
             /\ filtered_jobs' = FilterLoop(all_found_jobs, decisions, 1)
             /\ o_errors' = o_errors \o FilterErrors(decisions, 1)
             /\ current_status' = "Filtered"
       \/ \* get_llm_client or the prompt raises: lines 182-190
          /\ filtered_jobs' = all_found_jobs
          /\ o_errors' = Append(o_errors, "Job filtering failed, using all jobs")
          /\ current_status' = "Job filtering failed, proceeding with all jobs"
    /\ UNCHANGED <<job_searches, search_pos, all_jobs, current_index,
                   current_search_index, all_found_jobs, total_jobs_found,
                   o_applications, o_application_results, total_jobs_applied,
                   search_returns, apply_call, run_trace_id, state_trace_id,
                   search_trace_id, apply_trace_id, uuids>>

\* lines 202-212: one ApplicationRequest per filtered job, in order; a
\* request is identified by its job_id.
BuildApplications(jobs) == [i \in 1..Len(jobs) |-> jobs[i]]

\* lines 243-251: what the node returns as application_results when the
\* apply call, or the construction of its client, raised.
ApplyFailedResults(requested) == <<>>

\* lines 232-234
SuccessfulApplications(results) ==
    Cardinality({i \in 1..Len(results) : results[i].success})

ApplyToJobsNode ==
    /\ OrchRunning
    /\ UNCHANGED orchFrame
    /\ o_node = "apply_to_jobs_node"
    /\ o_node' = "END"
    /\ uuids' = uuids + 1                      \* line 194 evaluates the default
    /\ apply_trace_id' = NodeTraceId(state_trace_id, uuids + 1)
    /\ LET requested == BuildApplications(filtered_jobs)
       IN  /\ o_applications' = requested
           /\ IF requested = <<>>
              THEN /\ o_application_results' = <<>>
                   /\ total_jobs_applied' = 0
                   /\ current_status' = "No jobs to apply to"
                   /\ apply_call' = "none"
                   /\ UNCHANGED o_errors
              ELSE \/ \* easy_apply_for_jobs returns one result per request
                      \E flags \in [1..Len(requested) -> BOOLEAN] :
                         LET results == [i \in 1..Len(requested) |->
                                            [id_job |-> requested[i],
                                             success |-> flags[i]]]
                         IN  /\ o_application_results' = results
                             /\ total_jobs_applied' = SuccessfulApplications(results)
                             /\ current_status' = "Applied"
                             /\ apply_call' = "returned"
                             /\ UNCHANGED o_errors
                   \/ \* the client cannot be constructed or the call raises
                      /\ o_application_results' = ApplyFailedResults(requested)
                      /\ total_jobs_applied' = 0
                      /\ o_errors' = Append(o_errors, "Job application failed")
                      /\ current_status' = "Job application failed"
                      /\ apply_call' = "raised"
    /\ UNCHANGED <<job_searches, search_pos, all_jobs, current_index,
                   current_search_index, all_found_jobs, total_jobs_found,
                   filtered_jobs, search_returns, run_trace_id, state_trace_id,
                   search_trace_id>>

(***************************************************************************)
(* Service calls in flight at the same time.  The server module creates    *)
(* one JobSearchService and one JobApplicationService and every tool call  *)
(* goes to these two objects.  search_jobs builds a BrowserManager of its  *)
(* own in each call; JobApplicationService builds one in __init__ and      *)
(* every apply_to_jobs call uses it.  Manager 0 is that shared manager,    *)
(* manager c the local one of search call c.  A session is a number; 0 is  *)
(* None.  Each call is followed from start_browser to its finally block;   *)
(* calls arrive with credentials.                                          *)
(***************************************************************************)
Calls == 1..MaxCalls
CallKinds == {"search", "apply"}
Managers == {0} \cup Calls

\* search_jobs line 45 / JobApplicationService.__init__ line 27
ManagerOf(c) == IF c_kind[c] = "apply" THEN 0 ELSE c

ConcRunning == entry = "concurrent_calls"

ConcIdle ==
    /\ c_kind = [c \in Calls |-> "search"]
    /\ c_pc = [c \in Calls |-> "idle"]
    /\ c_driving = [c \in Calls |-> 0]
    /\ mgr_driver = [m \in Managers |-> 0]
    /\ live = {}
    /\ next_session = 0

ConcInitialState(kinds) ==
    /\ c_kind = kinds
    /\ c_pc = [c \in Calls |-> "start_browser"]
    /\ c_driving = [c \in Calls |-> 0]
    /\ mgr_driver = [m \in Managers |-> 0]
    /\ live = {}
    /\ next_session = 0

\* BrowserManager.start_browser: a new Chrome is assigned to self.driver,
\* whatever self.driver held; or Chrome fails to start and the call goes to
\* its except block.
StartBrowser(c) ==
    /\ c_pc[c] = "start_browser"
    /\ \/ LET new == next_session + 1
          IN  /\ next_session' = new
              /\ live' = live \cup {new}
              /\ mgr_driver' = [mgr_driver EXCEPT ![ManagerOf(c)] = new]
              /\ c_driving' = [c_driving EXCEPT ![c] = new]
              /\ c_pc' = [c_pc EXCEPT ![c] = "authenticate"]
       \/ /\ c_pc' = [c_pc EXCEPT ![c] = "finally"]
          /\ UNCHANGED <<next_session, live, mgr_driver, c_driving>>
    /\ UNCHANGED c_kind

\* auth_service.authenticate(email, password, browser_manager): the nodes
\* read browser_manager.driver when they run.  With driver None every node
\* fails and the result is authenticated=False.
Authenticate(c) ==
    /\ c_pc[c] = "authenticate"
    /\ LET session == mgr_driver[ManagerOf(c)]
       IN  IF session = 0
           THEN /\ c_pc' = [c_pc EXCEPT ![c] = "finally"]
                /\ UNCHANGED c_driving
           ELSE /\ c_driving' = [c_driving EXCEPT ![c] = session]
                /\ \E auth_result_authenticated \in BOOLEAN :
                      c_pc' = [c_pc EXCEPT ![c] =
                                  IF AuthenticationFailed(auth_result_authenticated)
                                  THEN "finally" ELSE "execute"]
    /\ UNCHANGED <<c_kind, mgr_driver, live, next_session>>

\* The graph call of the try block.  As written neither call reaches a node
\* that drives the browser: apply passes trace_id to execute, search passes
\* limit where the browser manager is expected.
GraphDrivesBrowser(kind) ==
    IF kind = "apply" THEN ApplyExecuteCallBinds ELSE ~SearchCallSwapsLimit

Execute(c) ==
    /\ c_pc[c] = "execute"
    /\ c_pc' = [c_pc EXCEPT ![c] = "finally"]
    /\ c_driving' = IF GraphDrivesBrowser(c_kind[c]) /\ mgr_driver[ManagerOf(c)] # 0
                    THEN [c_driving EXCEPT ![c] = mgr_driver[ManagerOf(c)]]
                    ELSE c_driving
    /\ UNCHANGED <<c_kind, mgr_driver, live, next_session>>

\* BrowserManager.close_browser in the finally block.
CloseBrowser(c) ==
    /\ c_pc[c] = "finally"
    /\ c_pc' = [c_pc EXCEPT ![c] = "done"]
    /\ c_driving' = [c_driving EXCEPT ![c] = 0]
    /\ LET m == ManagerOf(c)
       IN  IF mgr_driver[m] # 0
           THEN /\ live' = live \ {mgr_driver[m]}
                /\ mgr_driver' = [mgr_driver EXCEPT ![m] = 0]
           ELSE UNCHANGED <<live, mgr_driver>>
    /\ UNCHANGED <<c_kind, next_session>>

CallStartBrowser ==
    /\ ConcRunning /\ UNCHANGED concFrame
    /\ \E c \in Calls : StartBrowser(c)

CallAuthenticate ==
    /\ ConcRunning /\ UNCHANGED concFrame
    /\ \E c \in Calls : Authenticate(c)

CallExecute ==
    /\ ConcRunning /\ UNCHANGED concFrame
    /\ \E c \in Calls : Execute(c)

CallCloseBrowser ==
    /\ ConcRunning /\ UNCHANGED concFrame
    /\ \E c \in Calls : CloseBrowser(c)

(***************************************************************************)
(* analyze_form_node as a function of the open form.  The form is the      *)
(* sequence of its fields in document order, the order in which            *)
(* find_elements returns them.  A field has a tag, the text                *)
(* _get_field_label finds for it ("" when none), for a radio button its    *)
(* name, and its texts: the option texts of a select, the one text         *)
(* _get_radio_label finds for a radio button.  A question is compared by   *)
(* type, question and options; its element handles are left out.           *)
(***************************************************************************)
Field(tag, label, name, texts) ==
    [tag |-> tag, label |-> label, name |-> name, texts |-> texts]

FormFields ==
    {Field("text", l, "", <<>>) : l \in {"", "Years of experience"}}
    \cup {Field("select", l, "", t) : l \in {"", "Country"},
                                       t \in {<<"Spain">>, <<"", "Spain">>}}
    \cup {Field("radio", l, n, <<t>>) : l \in {"", "Authorized"}, n \in {"g1", "g2"},
                                         t \in {"", "Yes"}}

\* option.text.strip() / radio_label is truthy
NonBlank(texts) == SelectSeq(texts, LAMBDA t : t # "")

\* lines 190-204
TextQuestions(form) ==
    LET labelled == SelectSeq(form, LAMBDA f : f.tag = "text" /\ f.label # "")
    IN  [i \in 1..Len(labelled) |-> Question("text", labelled[i].label, <<>>)]

\* lines 207-223
SelectQuestions(form) ==
    LET labelled == SelectSeq(form, LAMBDA f : f.tag = "select" /\ f.label # "")
    IN  [i \in 1..Len(labelled) |->
            Question("select", labelled[i].label, NonBlank(labelled[i].texts))]

\* line 235: f"Radio group: {name}"
RadioGroupTitle(name) == <<"Radio group", name>>

\* lines 226-247: one question per radio name, in the order in which the
\* names first occur (dict insertion order); the question is the field label
\* of the first radio of the group, the options the labels of all of them.
RadioQuestions(form) ==
    LET radios == SelectSeq(form, LAMBDA f : f.tag = "radio")
        first == SelectSeq([i \in 1..Len(radios) |-> i],
                           LAMBDA i : \A j \in 1..(i - 1) : radios[j].name # radios[i].name)
        members(name) == SelectSeq(radios, LAMBDA f : f.name = name /\ f.texts[1] # "")
    IN  [g \in 1..Len(first) |->
            LET radio == radios[first[g]]
            IN  Question("radio",
                         IF radio.label # "" THEN radio.label
                         ELSE RadioGroupTitle(radio.name),
                         [k \in 1..Len(members(radio.name)) |->
                             members(radio.name)[k].texts[1]])]

\* line 238: every radio is appended to the "elements" of its group, with or
\* without a label.  An element is given by the text _get_radio_label finds
\* for it; the groups come in the order of RadioQuestions.
RadioElements(form) ==
    LET radios == SelectSeq(form, LAMBDA f : f.tag = "radio")
        first == SelectSeq([i \in 1..Len(radios) |-> i],
                           LAMBDA i : \A j \in 1..(i - 1) : radios[j].name # radios[i].name)
        members(name) == SelectSeq(radios, LAMBDA f : f.name = name)
    IN  [g \in 1..Len(first) |->
            [k \in 1..Len(members(radios[first[g]].name)) |->
                members(radios[first[g]].name)[k].texts[1]]]

AnalyzeFormQuestions(form) ==
    TextQuestions(form) \o SelectQuestions(form) \o RadioQuestions(form)

FormQuestionsAccumulating(previous, form) == previous \o AnalyzeFormQuestions(form)

\* lines 187 and 249-253: the list starts empty in every run and replaces
\* state["form_questions"].
FormQuestionsAfterRun(previous, form) == AnalyzeFormQuestions(form)

\* What the page holds for a field: whether the element has an id, the
\* stripped text of the label linked to the id and of the first label in the
\* parent element (<<>>: there is no such label), and the placeholder and
\* aria-label attributes ("": none).
LabelSources(has_id, linked, parent, placeholder, aria_label) ==
    [has_id |-> has_id, linked |-> linked, parent |-> parent,
     placeholder |-> placeholder, aria_label |-> aria_label]

NoLabelSources == LabelSources(FALSE, <<>>, <<>>, "", "")

\* _get_field_label, lines 430-462: a label element that is found decides,
\* whatever its text; an attribute decides when it is not empty.
GetFieldLabel(src) ==
    IF src.has_id /\ src.linked # <<>> THEN src.linked[1]
    ELSE IF src.parent # <<>> THEN src.parent[1]
    ELSE IF src.placeholder # "" THEN src.placeholder
    ELSE IF src.aria_label # "" THEN src.aria_label
    ELSE ""

AnalyzeIdle ==
    /\ form_dom = <<>>
    /\ analyze_ok = <<>>
    /\ first_questions = <<>>
    /\ label_sources = NoLabelSources
    /\ label_result = ""
    /\ label_done = "no"

\* The node run on the state the previous run returned.
AnalyzeFormNode ==
    /\ entry = "analyze_form"
    /\ UNCHANGED analyzeFrame
    /\ Len(analyze_ok) < 2
    /\ \/ /\ form_questions' = FormQuestionsAfterRun(form_questions, form_dom)
          /\ e_current_step' = "form_analyzed"
          /\ analyze_ok' = Append(analyze_ok, TRUE)
          /\ UNCHANGED <<e_success, e_error>>
       \/ \* the form modal does not appear within the wait, or a call raises
          /\ e_success' = FALSE
          /\ e_error' = "Failed to analyze form"
          /\ e_current_step' = "form_analysis_failed"
          /\ analyze_ok' = Append(analyze_ok, FALSE)
          /\ UNCHANGED form_questions
    /\ first_questions' = IF analyze_ok = <<>> THEN form_questions' ELSE first_questions
    /\ UNCHANGED <<form_dom, e_node, form_answers, e_open_unresolved, e_submit_clicked,
                   e_confirm_timeout, label_sources, label_result, label_done>>

\* One call of _get_field_label; lines 464-465: any other exception gives "".
GetFieldLabelCall ==
    /\ entry = "get_field_label"
    /\ UNCHANGED <<analyzeFrame, easyVars>>
    /\ label_done = "no"
    /\ \/ /\ label_result' = GetFieldLabel(label_sources)
          /\ label_done' = "returned"
       \/ /\ label_result' = ""
          /\ label_done' = "raised"
    /\ UNCHANGED <<form_dom, analyze_ok, first_questions, label_sources>>

(***************************************************************************)
(* The search for the control in click_easy_apply_node and in              *)
(* submit_application_node.  A page is given by the set of locators that   *)
(* resolve on it; a strategy is named by its position in the node's list.  *)
(***************************************************************************)
\* lines 126-132 with the XPath of line 140 for the ":contains" selector
EasyApplySelectors ==
    <<"button[aria-label*='Easy Apply']",
      "button[data-control-name='jobdetails_topcard_inapply']",
      ".jobs-apply-button--top-card button",
      "button.jobs-apply-button",
      "//button[contains(text(), 'Easy Apply')]">>

\* lines 356-362; both ":contains" selectors look up the XPath of line 371
SubmitSelectors ==
    <<"button[aria-label*='Submit application']",
      "button[data-control-name='continue_unify']",
      "button.artdeco-button--primary",
      "//button[contains(text(), 'Submit') or contains(text(), 'Send application')]",
      "//button[contains(text(), 'Submit') or contains(text(), 'Send application')]">>

RECURSIVE FindButtonLast(_, _, _, _, _)
FindButtonLast(selectors, resolving, i, tried, button) ==
    IF i > Len(selectors) THEN [button |-> button, tried |-> tried]
    ELSE FindButtonLast(selectors, resolving, i + 1, Append(tried, i),
                        IF selectors[i] \in resolving THEN i ELSE button)

\* The for loop of lines 135-148 and 365-377: find_element for each selector
\* in turn, break at the first that finds an element, continue on
\* NoSuchElementException.  button is 0 when the loop ends without one.
RECURSIVE FindButton(_, _, _, _, _)
FindButton(selectors, resolving, i, tried, button) ==
    IF i > Len(selectors) THEN [button |-> button, tried |-> tried]
    ELSE IF selectors[i] \in resolving
         THEN [button |-> i, tried |-> Append(tried, i)]
         ELSE FindButton(selectors, resolving, i + 1, Append(tried, i), button)

SelectIdle ==
    /\ sel_resolving = {}
    /\ sel_tried = <<>>
    /\ sel_clicked = 0
    /\ sel_waited = FALSE

\* click_easy_apply_node on the page sel_resolving describes
ClickEasyApplyOnPage ==
    /\ entry = "select_control"
    /\ UNCHANGED selectFrame
    /\ e_node = "click_easy_apply"
    /\ e_node' = "analyze_form"
    /\ LET found == FindButton(EasyApplySelectors, sel_resolving, 1, <<>>, 0)
       IN  \/ /\ found.button = 0
              /\ sel_tried' = found.tried
              /\ sel_clicked' = 0
              /\ e_success' = FALSE
              /\ e_error' = "Easy Apply button not found"
              /\ e_current_step' = "easy_apply_not_found"
           \/ /\ found.button # 0
              /\ sel_tried' = found.tried
              /\ sel_clicked' = found.button
              /\ \/ /\ e_current_step' = "easy_apply_clicked"
                    /\ UNCHANGED <<e_success, e_error>>
                 \/ \* click raises
                    /\ e_success' = FALSE
                    /\ e_error' = "Failed to click Easy Apply"
                    /\ e_current_step' = "easy_apply_click_failed"
           \/ \* a find_element raises something other than NoSuchElementException
              \E k \in 1..Len(found.tried) :
                 /\ sel_tried' = SubSeq(found.tried, 1, k)
                 /\ sel_clicked' = 0
                 /\ e_success' = FALSE
                 /\ e_error' = "Failed to click Easy Apply"
                 /\ e_current_step' = "easy_apply_click_failed"
    /\ UNCHANGED <<sel_resolving, sel_waited, form_questions, form_answers,
                   e_open_unresolved, e_submit_clicked, e_confirm_timeout>>

\* submit_application_node on the page sel_resolving describes
SubmitApplicationOnPage ==
    /\ entry = "select_control"
    /\ UNCHANGED selectFrame
    /\ e_node = "submit_application"
    /\ e_node' = "END"
    /\ LET found == FindButton(SubmitSelectors, sel_resolving, 1, <<>>, 0)
       IN  \/ /\ found.button = 0
              /\ sel_tried' = found.tried
              /\ sel_clicked' = 0
              /\ sel_waited' = FALSE
              /\ e_success' = FALSE
              /\ e_error' = "Submit button not found"
              /\ e_current_step' = "submit_button_not_found"
           \/ /\ found.button # 0
              /\ sel_tried' = found.tried
              /\ sel_clicked' = found.button
              /\ \E outcome \in SubmitOutcomes \ {"not_found"} :
                    /\ sel_waited' = (outcome # "raise")
                    /\ e_success' = SubmitSucceeds(outcome)
                    /\ e_error' =
                          CASE outcome = "confirmed" -> e_error
                            [] outcome = "timeout" ->
                                  "Application submitted but confirmation not detected"
                            [] OTHER -> "Failed to submit application"
                    /\ e_current_step' =
                          CASE outcome = "confirmed" -> "application_submitted"
                            [] outcome = "timeout" ->
                                  "application_submitted_no_confirmation"
                            [] OTHER -> "application_submit_failed"
           \/ \* a find_element raises something other than NoSuchElementException
              \E k \in 1..Len(found.tried) :
                 /\ sel_tried' = SubSeq(found.tried, 1, k)
                 /\ sel_clicked' = 0
                 /\ sel_waited' = FALSE
                 /\ e_success' = FALSE
                 /\ e_error' = "Failed to submit application"
                 /\ e_current_step' = "application_submit_failed"
    /\ UNCHANGED <<sel_resolving, form_questions, form_answers, e_open_unresolved,
                   e_submit_clicked, e_confirm_timeout>>


(***************************************************************************)
(* The LinkedIn side as a whole: one behaviour per call of an entry point. *)
(***************************************************************************)
Entries == {"search_graph", "apply_graph", "search_service", "apply_service"}

ResolveIdle ==
    /\ r_answer = <<>>
    /\ r_options = <<>>
    /\ r_result = <<>>
    /\ r_done = FALSE

SiteIdle ==
    /\ perPage = 1
    /\ totalCards = 0
    /\ badMode = "none"
    /\ endless = FALSE
    /\ navBroken = FALSE

Init ==
    /\ entry \in Entries
    /\ ResolveIdle
    /\ ConcIdle
    /\ AnalyzeIdle
    /\ SelectIdle
    /\ OrchIdle
    /\ AuthIdle
    /\ EasyIdle
    /\ \/ /\ entry = "search_graph"
          /\ perPage \in 1..MaxPerPage
          /\ totalCards \in 0..MaxCards
          /\ badMode \in BadModes
          /\ endless \in BOOLEAN
          /\ navBroken \in BOOLEAN
          /\ \E lim \in 0..MaxLimit : SearchInitialState(lim, FALSE)
          /\ ApplyIdle
          /\ SvcIdle
       \/ /\ entry = "search_service"
          /\ SiteIdle
          /\ SearchIdle
          /\ ApplyIdle
          /\ SvcInitialState("start_browser", TRUE)
       \/ /\ entry = "apply_graph"
          /\ SiteIdle
          /\ SearchIdle
          /\ \E apps \in SeqsUpTo(JobIds, MaxApps), kind \in ReqKinds :
                ApplyInitialState(apps, kind)
          /\ SvcIdle
       \/ /\ entry = "apply_service"
          /\ SiteIdle
          /\ SearchIdle
          /\ a_node = "idle"
          /\ applications \in SeqsUpTo(JobIds, MaxApps)
          /\ req_kind \in ReqKinds
          /\ current_application_index = 0
          /\ application_results = <<>>
          /\ current_application = 0
          /\ job_application_agent = "None"
          /\ a_errors = <<>>
          /\ processed = <<>>
          /\ unresolved_items = {}
          /\ timeout_items = {}
          /\ \E creds \in BOOLEAN : SvcInitialState("check_credentials", creds)

Next ==
    \/ BuildSearchUrl
    \/ NavigateToSearch
    \/ ExtractJobsFromPage
    \/ CheckPagination
    \/ ShouldContinuePagination
    \/ NavigateNextPage
    \/ NavigateToLogin
    \/ FillCredentials
    \/ SubmitLogin
    \/ VerifyAuthentication
    \/ InitializeAgent
    \/ SelectNextApplication
    \/ HasMoreApplications
    \/ ProcessApplication
    \/ ProcessApplicationReturn
    \/ RecordResult
    \/ NavigateToJob
    \/ ClickEasyApply
    \/ AnalyzeForm
    \/ FillForm
    \/ SubmitApplication
    \/ ApplySvcCheckCredentials
    \/ SvcStartBrowser
    \/ SearchSvcCheckAuth
    \/ ApplySvcCheckAuth
    \/ SearchSvcExit
    \/ ApplySvcExit
    \/ SvcFinally

Spec == Init /\ [][Next]_vars

(***************************************************************************)
(* The core agent as a whole: one behaviour per call of run.               *)
(***************************************************************************)
LinkedInIdle ==
    /\ SiteIdle
    /\ SearchIdle
    /\ AuthIdle
    /\ ApplyIdle
    /\ EasyIdle
    /\ SvcIdle

InitOrch ==
    /\ entry = "agent_run"
    /\ ResolveIdle
    /\ ConcIdle
    /\ AnalyzeIdle
    /\ SelectIdle
    /\ LinkedInIdle
    /\ \E n \in 0..MaxSearches : OrchInitialState([i \in 1..n |-> i])

NextOrch ==
    \/ SearchJobsNodeEnter
    \/ SearchJobsRequest
    \/ SearchJobsNodeReturn
    \/ FilterJobsNode
    \/ ApplyToJobsNode

SpecOrch == InitOrch /\ [][NextOrch]_vars

(***************************************************************************)
(* The resolver applied to every answer and option list within the bounds. *)
(***************************************************************************)
InitResolve ==
    /\ entry = "resolve"
    /\ ConcIdle
    /\ AnalyzeIdle
    /\ SelectIdle
    /\ LinkedInIdle
    /\ OrchIdle
    /\ r_answer \in Answers
    /\ r_options \in SeqsUpTo(OptionTexts, MaxOptions)
    /\ r_result = <<>>
    /\ r_done = FALSE

Resolve ==
    /\ entry = "resolve"
    /\ UNCHANGED resolveFrame
    /\ ~r_done
    /\ r_result' = FindBestOptionMatch(r_answer, r_options)
    /\ r_done' = TRUE
    /\ UNCHANGED <<r_answer, r_options>>

NextResolve == Resolve

SpecResolve == InitResolve /\ [][NextResolve]_vars

(***************************************************************************)
(* MaxCalls tool calls running at the same time in one server process.     *)
(***************************************************************************)
InitConc ==
    /\ entry = "concurrent_calls"
    /\ ResolveIdle
    /\ AnalyzeIdle
    /\ SelectIdle
    /\ LinkedInIdle
    /\ OrchIdle
    /\ \E kinds \in [Calls -> CallKinds] : ConcInitialState(kinds)

NextConc ==
    \/ CallStartBrowser
    \/ CallAuthenticate
    \/ CallExecute
    \/ CallCloseBrowser

SpecConc == InitConc /\ [][NextConc]_vars

(***************************************************************************)
(* analyze_form_node run twice on one open form.                           *)
(***************************************************************************)
InitAnalyze ==
    /\ entry = "analyze_form"
    /\ ResolveIdle
    /\ OrchIdle
    /\ ConcIdle
    /\ SiteIdle
    /\ SearchIdle
    /\ AuthIdle
    /\ ApplyIdle
    /\ SvcIdle
    /\ e_node = "analyze_form"
    /\ e_success = FALSE
    /\ e_error = ""
    /\ e_current_step = "easy_apply_clicked"
    /\ form_questions = <<>>
    /\ form_answers = <<>>
    /\ e_open_unresolved = FALSE
    /\ e_submit_clicked = FALSE
    /\ e_confirm_timeout = FALSE
    /\ SelectIdle
    /\ form_dom \in SeqsUpTo(FormFields, MaxFields)
    /\ analyze_ok = <<>>
    /\ first_questions = <<>>
    /\ label_sources = NoLabelSources
    /\ label_result = ""
    /\ label_done = "no"

NextAnalyze == AnalyzeFormNode

SpecAnalyze == InitAnalyze /\ [][NextAnalyze]_vars

\* _get_field_label in front of one field.
InitLabel ==
    /\ entry = "get_field_label"
    /\ ResolveIdle
    /\ OrchIdle
    /\ ConcIdle
    /\ SelectIdle
    /\ SiteIdle
    /\ SearchIdle
    /\ AuthIdle
    /\ ApplyIdle
    /\ SvcIdle
    /\ EasyIdle
    /\ form_dom = <<>>
    /\ analyze_ok = <<>>
    /\ first_questions = <<>>
    /\ \E has_id \in BOOLEAN,
          linked \in {<<>>, <<"">>, <<"Linked label">>},
          parent \in {<<>>, <<"">>, <<"Parent label">>},
          placeholder \in {"", "Placeholder"},
          aria_label \in {"", "Aria label"} :
          label_sources = LabelSources(has_id, linked, parent, placeholder, aria_label)
    /\ label_result = ""
    /\ label_done = "no"

NextLabel == GetFieldLabelCall

SpecLabel == InitLabel /\ [][NextLabel]_vars

\* click_easy_apply_node or submit_application_node in front of a page.
InitSelect ==
    /\ entry = "select_control"
    /\ ResolveIdle
    /\ OrchIdle
    /\ ConcIdle
    /\ AnalyzeIdle
    /\ SiteIdle
    /\ SearchIdle
    /\ AuthIdle
    /\ ApplyIdle
    /\ SvcIdle
    /\ e_node \in {"click_easy_apply", "submit_application"}
    /\ e_success = FALSE
    /\ e_error = ""
    /\ e_current_step = IF e_node = "click_easy_apply" THEN "navigated_to_job"
                        ELSE "form_filled"
    /\ form_questions = <<>>
    /\ form_answers = <<>>
    /\ e_open_unresolved = FALSE
    /\ e_submit_clicked = FALSE
    /\ e_confirm_timeout = FALSE
    /\ LET selectors == IF e_node = "click_easy_apply" THEN EasyApplySelectors
                        ELSE SubmitSelectors
       IN  sel_resolving \in SUBSET {selectors[i] : i \in 1..Len(selectors)}
    /\ sel_tried = <<>>
    /\ sel_clicked = 0
    /\ sel_waited = FALSE

NextSelect ==
    \/ ClickEasyApplyOnPage
    \/ SubmitApplicationOnPage

SpecSelect == InitSelect /\ [][NextSelect]_vars

(***************************************************************************)
(* Properties of the search graph, checked under Spec.                     *)
(***************************************************************************)
\* A site whose pagination ends, whose every card is a listing with an id
\* and whose pages hold at least limit listings; the browser never fails.
PlainSite ==
    /\ ~endless
    /\ badMode = "none"
    /\ perPage >= limit
    /\ faults = 0

\* C1: for every limit >= 0 and every page size that is at least limit, a
\* run of the search graph returns exactly min(limit, total available
\* listings) jobs, and no run returns more than limit.
C1_SearchReturnsMinOfLimitAndAvailable ==
    (entry = "search_graph" /\ s_node = "END") =>
        /\ Len(collected_jobs) <= limit
        /\ PlainSite => Len(collected_jobs) = Min(limit, totalCards)

\* The run has ended on a site that shows more listings than the limit, and
\* the result is cut at the limit.
C1_Witness ==
    /\ entry = "search_graph"
    /\ s_node = "END"
    /\ PlainSite
    /\ limit >= 1
    /\ totalCards > limit
    /\ Len(collected_jobs) = limit

\* C2: every run of the search graph ends within the page cap: whatever the
\* pages contain and whether or not a navigation succeeds, the graph visits
\* at most PageCap pages, that is, it runs navigate_next_page fewer than
\* PageCap times.
C2_SearchEndsWithinPageCap ==
    entry = "search_graph" => navs < PageCap

\* The number of cards of page p from which lines 112-119 obtain a job id.
ParsableOnPage(p) == Cardinality({i \in 1..CardsOnPage(p) : PageCards(p)[i] # 0})

\* C13: when the first results page holds at least limit parsable listings
\* and the browser does not fail, the search run collects exactly limit jobs
\* in its first extract_jobs_from_page, ends at the following check, and
\* never executes navigate_next_page.
C13_FirstPageSatisfiesLimit ==
    (entry = "search_graph" /\ ParsableOnPage(1) >= limit /\ faults = 0) =>
        /\ navs = 0
        /\ s_node # "navigate_next_page"
        /\ s_node \in {"check_pagination", "should_continue", "END"} =>
               Len(collected_jobs) = limit

\* The run has ended without a navigation on a site whose first page mixes
\* parsable and unparsable cards and is followed by a second page.
C13_Witness ==
    /\ entry = "search_graph"
    /\ s_node = "END"
    /\ faults = 0
    /\ limit >= 1
    /\ badMode = "odd"
    /\ ParsableOnPage(1) >= limit
    /\ NumPages > 1
    /\ navs = 0
    /\ Len(collected_jobs) = limit

\* C19: in every state of a search run with limit >= 0 the number of
\* collected jobs is at most limit: extract_jobs_from_page stops appending
\* in the middle of a page once the count reaches limit.
C19_CollectedNeverExceedsLimit ==
    entry = "search_graph" => Len(collected_jobs) <= limit

\* extract_jobs_from_page has just returned with limit jobs collected from a
\* page that shows more listings with a job id than that.
C19_Witness ==
    /\ entry = "search_graph"
    /\ s_node = "check_pagination"
    /\ limit >= 1
    /\ b_page >= 1
    /\ ParsableOnPage(b_page) > limit
    /\ Len(collected_jobs) = limit

\* C20: the edge predicate after check_pagination selects "continue" if and
\* only if the collected count is below limit, the current page number is
\* below PageCap and a next-page control is present and enabled; in every
\* other case it selects "finish".
C20_ContinueIffAllThreeHold ==
    [][(entry = "search_graph" /\ BrowserUsable /\ s_node = "should_continue") =>
          IF /\ Len(collected_jobs) < limit
             /\ current_page < PageCap
             /\ NextButtonEnabled(b_page)
          THEN s_node' = "navigate_next_page"
          ELSE s_node' = "END"]_vars

\* C14: when navigate_to_login fails, the failure is recorded in error, the
\* authentication run still reaches verify_authentication, and the result
\* of the run reports authenticated = false.  Only navigate_to_login writes
\* "Failed to navigate to LinkedIn", so a finished run that still carries it
\* is a run whose navigation failed.
C14_FailedLoginNavigationIsNotAuthenticated ==
    (auth_node = "END" /\ auth_error = "Failed to navigate to LinkedIn") =>
        ~authenticated

\* C15: every node and every edge predicate turns a failure of the browser
\* into a returned state or edge label; no such failure leaves the graph
\* as an exception.  For the search graph, called with a usable browser
\* manager: the run never ends in an exception.
C15_NoFailureCrossesEngineBoundary ==
    (entry = "search_graph" /\ BrowserUsable) => s_node # "raised"

\* C16: service calls in flight at the same time never operate on the same
\* browser session: the sessions two calls drive are different, and the
\* session a call drives is open and is still the one its browser manager
\* holds (no other call's cleanup closed it, no other call's start replaced
\* it).
C16_ConcurrentCallsUseSeparateSessions ==
    \A c \in Calls : c_driving[c] # 0 =>
        /\ c_driving[c] \in live
        /\ mgr_driver[ManagerOf(c)] = c_driving[c]
        /\ \A d \in Calls \ {c} : c_driving[d] # c_driving[c]

C4_NoPipelineStepWithoutAuthentication ==
    (InService /\ auth_node = "END" /\ ~authenticated) =>
        /\ s_node = "idle"
        /\ a_node = "idle"
        /\ e_node = "idle"

\* search_jobs has finished after an authentication that failed.
C4_Witness ==
    /\ entry = "search_service"
    /\ svc_pc = "done"
    /\ auth_node = "END"
    /\ ~authenticated

\* C5: when no open-form selector resolved for an item, the result emitted
\* for that item has success = false.
C5_UnresolvedOpenFormFails ==
    \A i \in unresolved_items :
        i <= Len(application_results) => ~application_results[i].success

\* C6: when submit_application clicked the submit control and the wait for
\* a confirmation timed out, the item's result has success = true and
\* carries the warning; it never has success = false.
C6_ConfirmationTimeoutIsSuccess ==
    /\ (e_node = "END" /\ e_submit_clicked /\ e_confirm_timeout) =>
          /\ e_success
          /\ e_error = "Application submitted but confirmation not detected"
    /\ \A i \in timeout_items :
          /\ application_results[i].success
          /\ application_results[i].error =
                "Application submitted but confirmation not detected"

\* The result of an item whose confirmation wait timed out is recorded.
C6_Witness ==
    /\ entry = "apply_graph"
    /\ a_node = "END"
    /\ timeout_items # {}

\* C7: an authentication failure is returned by search_jobs and by
\* apply_to_jobs as a result; no exception leaves the entry point.
C7_AuthenticationFailureIsReturned ==
    (InService /\ svc_pc = "done" /\ auth_node = "END" /\ ~authenticated) =>
        svc_outcome = "returned"

(***************************************************************************)
(* Properties of the core agent, checked under SpecOrch.                   *)
(***************************************************************************)
\* The jobs of the successful searches among returns, in order.
RECURSIVE JobsOfSuccessful(_, _)
JobsOfSuccessful(returns, i) ==
    IF i > Len(returns) THEN <<>>
    ELSE (IF returns[i].ok THEN returns[i].jobs ELSE <<>>)
         \o JobsOfSuccessful(returns, i + 1)

SearchNodeReturned == search_pos >= 1 /\ o_node # "search_jobs_node"

\* C8: when a search request fails, the run goes on: every request is
\* attempted, in order, and the job list handed to filtering holds the jobs
\* of every successful search, in request order.
C8_FailedSearchDoesNotEndRun ==
    (SearchNodeReturned /\ \E i \in 1..Len(search_returns) : ~search_returns[i].ok) =>
        /\ Len(search_returns) = Len(job_searches)
        /\ \A i \in 1..Len(job_searches) : search_returns[i].request = job_searches[i]
        /\ all_found_jobs = JobsOfSuccessful(search_returns, 1)

\* The first of two searches failed, the second returned a job, and that
\* job has reached filtering.
C8_Witness ==
    /\ o_node = "filter_jobs_node"
    /\ Len(search_returns) = 2
    /\ ~search_returns[1].ok
    /\ search_returns[2].ok
    /\ search_returns[2].jobs # <<>>
    /\ all_found_jobs = search_returns[2].jobs

\* C9: the run returns one application result per application requested,
\* the i-th for the i-th request, also when the whole apply call failed.
C9_OneResultPerApplication ==
    o_node = "END" =>
        /\ Len(o_application_results) = Len(o_applications)
        /\ \A i \in 1..Len(o_applications) :
              o_application_results[i].id_job = o_applications[i]

(***************************************************************************)
(* Properties of the resolver, checked under SpecResolve.                  *)
(***************************************************************************)
\* C10: when some option equals the answer ignoring case, the resolver
\* returns an option that equals the answer ignoring case, also when an
\* earlier option matches the answer only as a substring.
C10_ExactMatchWins ==
    (r_done /\ \E i \in 1..Len(r_options) : Lower(r_options[i]) = Lower(r_answer)) =>
        /\ \E i \in 1..Len(r_options) : r_result = r_options[i]
        /\ Lower(r_result) = Lower(r_answer)

\* The first option only contains the answer, the second equals it ignoring
\* case, and the second is returned.
C10_Witness ==
    /\ r_done
    /\ Len(r_options) = 2
    /\ r_answer # <<>>
    /\ Contains(Lower(r_answer), Lower(r_options[1]))
    /\ Lower(r_options[1]) # Lower(r_answer)
    /\ Lower(r_options[2]) = Lower(r_answer)
    /\ r_result = r_options[2]

(* ------------------------------ C11, C12 ------------------------------- *)
OptionEqualsAnswer(i) == Lower(r_options[i]) = Lower(r_answer)

OptionOverlapsAnswer(i) ==
    \/ Contains(Lower(r_answer), Lower(r_options[i]))
    \/ Contains(Lower(r_options[i]), Lower(r_answer))

\* C11: when no option equals the answer ignoring case, the resolver returns
\* the earliest option, in list order, that contains the answer or is
\* contained in it, ignoring case.
C11_FirstSubstringMatchInListOrder ==
    (r_done /\ \A i \in 1..Len(r_options) : ~OptionEqualsAnswer(i)) =>
        \A i \in 1..Len(r_options) :
            (OptionOverlapsAnswer(i) /\ \A j \in 1..(i - 1) : ~OptionOverlapsAnswer(j))
                => r_result = r_options[i]

\* Two different options are both contained in the answer, neither equals it,
\* and the earlier one is returned.
C11_Witness ==
    /\ r_done
    /\ Len(r_options) = 2
    /\ r_options[1] # r_options[2]
    /\ \A i \in 1..2 : ~OptionEqualsAnswer(i)
    /\ \A i \in 1..2 : Contains(Lower(r_options[i]), Lower(r_answer))
    /\ r_result = r_options[1]

\* C12: with no exact and no substring match the resolver returns the first
\* option of a non-empty list; it returns the empty text exactly when the
\* list is empty; for a non-empty list the result is one of the options.
C12_FallbackIsFirstOption ==
    r_done =>
        /\ (/\ r_options # <<>>
            /\ \A i \in 1..Len(r_options) :
                   ~OptionEqualsAnswer(i) /\ ~OptionOverlapsAnswer(i))
               => r_result = r_options[1]
        /\ (r_result = <<>>) <=> (r_options = <<>>)
        /\ r_options # <<>> => \E i \in 1..Len(r_options) : r_result = r_options[i]

\* Two different options, neither related to the answer, and the first one
\* is returned.
C12_Witness ==
    /\ r_done
    /\ Len(r_options) = 2
    /\ r_options[1] # r_options[2]
    /\ \A i \in 1..2 : ~OptionEqualsAnswer(i) /\ ~OptionOverlapsAnswer(i)
    /\ r_result = r_options[1]

\* C18: one trace_id is generated per run of the agent and stays the same
\* for the whole run: every search call and the apply call receive it, and
\* the final state the run returns carries it.
C18_OneTraceIdPerRun ==
    entry = "agent_run" =>
        /\ \A i \in 1..Len(search_returns) : search_returns[i].trace_id = run_trace_id
        /\ apply_call # "none" => apply_trace_id = run_trace_id
        /\ o_node = "END" => state_trace_id = run_trace_id

(***************************************************************************)
(* Further properties of the search graph, checked under Spec.             *)
(***************************************************************************)
NavigationFailedLast ==
    /\ s_errors # <<>>
    /\ s_errors[Len(s_errors)] = "Failed to navigate to next page"

\* C21: after navigate_next_page failed (its error is the last one recorded)
\* no further job is appended to collected_jobs, and the next evaluation of
\* the edge predicate selects "finish".
C21_FailedNavigationEndsCollection ==
    [][(entry = "search_graph" /\ NavigationFailedLast) =>
          /\ collected_jobs' = collected_jobs
          /\ s_node = "should_continue" => s_node' = "END"]_vars

(***************************************************************************)
(* Further properties of the application graph and the Easy Apply          *)
(* sub-workflow, checked under Spec.                                       *)
(***************************************************************************)
\* C22: once a step of the sub-workflow has recorded an error, no later step
\* completes successfully: submit_application, entered with an error
\* recorded by navigate_to_job, click_easy_apply, analyze_form or fill_form,
\* does not click the submit control and does not set success to true.
C22_NoSuccessAfterRecordedError ==
    [][(e_node = "submit_application" /\ e_error # "") =>
          /\ ~e_submit_clicked'
          /\ ~e_success']_vars

\* Position of a run of the application graph within one round of its loop,
\* counted down from the entry point to the end of the round.
ApplyNodeRank ==
    CASE a_node = "initialize_agent" -> 13
      [] a_node = "select_next_application" -> 12
      [] a_node = "has_more_applications" -> 11
      [] a_node = "process_application" /\ e_node = "idle" -> 10
      [] a_node = "process_application" /\ e_node = "navigate_to_job" -> 9
      [] a_node = "process_application" /\ e_node = "click_easy_apply" -> 8
      [] a_node = "process_application" /\ e_node = "analyze_form" -> 7
      [] a_node = "process_application" /\ e_node = "fill_form" -> 6
      [] a_node = "process_application" /\ e_node = "submit_application" -> 5
      [] a_node = "process_application" /\ e_node = "END" -> 4
      [] a_node = "record_result" -> 3
      [] OTHER -> 0

\* Rounds still to run, then the position within the current round.
ApplyLoopMeasure ==
    16 * (Len(applications) - current_application_index) + ApplyNodeRank

\* C23: the application loop hands the requests to process_application in
\* list order, each exactly once: what has been processed is always the
\* prefix of the request list up to the index (plus the request being
\* processed), process_application is entered only below the list length,
\* the run ends exactly with the index at the list length and every request
\* processed, and every step of a run lowers a natural-valued measure, so
\* every run ends; an empty list is never processed.
C23_LoopProcessesEachRequestOnceInOrder ==
    /\ [](entry = "apply_graph" =>
            /\ Len(processed) <= Len(applications)
            /\ processed = SubSeq(applications, 1, Len(processed))
            /\ current_application_index <= Len(applications)
            /\ ApplyLoopMeasure >= 0
            /\ a_node \in {"process_application", "record_result"} =>
                  current_application_index < Len(applications)
            /\ Len(processed) =
                  IF \/ a_node = "record_result"
                     \/ a_node = "process_application" /\ e_node # "idle"
                  THEN current_application_index + 1
                  ELSE current_application_index
            /\ a_node = "END" =>
                  /\ current_application_index = Len(applications)
                  /\ processed = applications)
    /\ [][(entry = "apply_graph" /\ a_node # "idle") =>
             ApplyLoopMeasure' < ApplyLoopMeasure]_vars

C23_Witness ==
    /\ entry = "apply_graph"
    /\ a_node = "END"
    /\ Len(applications) = 2
    /\ applications[1] # applications[2]
    /\ processed = applications

\* C24: when apply_to_job raises for a request (requests without attribute
\* access raise at line 537), exactly one result is appended for it, carrying
\* the request's job id, success false and an error message, the failure is
\* appended to errors, and the loop goes on: at every moment the results are
\* the failure records of the first requests in list order, one error per
\* result, and the run ends with a failure record for every request.
C24_RaisingAgentYieldsOneFailureRecord ==
    (entry = "apply_graph" /\ ~HasMonthlySalaryAttribute(req_kind)) =>
        /\ Len(application_results) <= Len(applications)
        /\ \A i \in 1..Len(application_results) :
              application_results[i] =
                  Result(applications[i], FALSE, "Application processing failed")
        /\ Len(a_errors) = Len(application_results)
        /\ Len(application_results) =
              IF a_node = "record_result"
              THEN current_application_index + 1
              ELSE current_application_index
        /\ a_node = "END" => Len(application_results) = Len(applications)

C24_Witness ==
    /\ entry = "apply_graph"
    /\ ~HasMonthlySalaryAttribute(req_kind)
    /\ a_node = "END"
    /\ Len(applications) = 2
    /\ applications[1] # applications[2]
    /\ Len(application_results) = 2
    /\ Len(a_errors) = 2

(***************************************************************************)
(* Further properties of the apply entry point, checked under Spec.        *)
(***************************************************************************)
\* C25: apply_to_jobs returns the blanket "Application workflow failed"
\* records only when the browser did not start, authentication failed or a
\* step of the application graph failed; after a started browser and a
\* successful authentication the results returned are those of the graph.
C25_BlanketRecordsOnlyAfterFailure ==
    (/\ entry = "apply_service"
     /\ svc_pc = "done"
     /\ svc_outcome = "returned"
     /\ applications # <<>>
     /\ svc_result = ErrorRecords(applications)) =>
        \/ svc_exc = "start_browser failed"
        \/ AuthenticationFailed(authenticated)
        \/ a_errors # <<>>

(***************************************************************************)
(* Further properties of the Easy Apply sub-workflow, checked under Spec.  *)
(***************************************************************************)
\* C26: after fill_form the answer map holds one entry for every question
\* analyze_form discovered, an answer or a text starting with "Error".
C26_OneAnswerEntryPerQuestion ==
    (e_node = "submit_application" /\ e_current_step = "form_filled") =>
        /\ Cardinality(DOMAIN form_answers) = Len(form_questions)
        /\ \A i \in 1..Len(form_questions) :
              /\ form_questions[i].question \in DOMAIN form_answers
              /\ form_answers[form_questions[i].question] \in {"answer", "Error"}

\* C27: a result with success = true carries a non-empty error only when the
\* submit control was clicked in that item's run and the confirmation wait
\* timed out, and then the error is the advisory text, never the error of an
\* earlier step.
C27_ErrorWithSuccessOnlyAsAdvisory ==
    /\ (e_node = "END" /\ e_success /\ e_error # "") =>
          /\ e_submit_clicked
          /\ e_confirm_timeout
          /\ e_error = "Application submitted but confirmation not detected"
    /\ \A i \in 1..Len(application_results) :
          (application_results[i].success /\ application_results[i].error # "") =>
              /\ i \in timeout_items
              /\ application_results[i].error =
                    "Application submitted but confirmation not detected"

(***************************************************************************)
(* Properties of the search for the control, checked under SpecSelect.     *)
(***************************************************************************)
\* The node has run: click_easy_apply_node leads to analyze_form,
\* submit_application_node to END.
SelectorNodeRan == entry = "select_control" /\ e_node \in {"analyze_form", "END"}

SelectorsRun ==
    IF e_node = "analyze_form" THEN EasyApplySelectors ELSE SubmitSelectors

\* C28: click_easy_apply_node and submit_application_node look their
\* strategies up in the declared order, pass only strategies that do not
\* resolve and click the element of the first one that resolves, looking up
\* none after it; when no strategy resolves the node records success = false
\* with an error, clicks nothing, and submit waits for no confirmation.
C28_FirstResolvingStrategyWins ==
    SelectorNodeRan =>
        /\ sel_tried = [k \in 1..Len(sel_tried) |-> k]
        /\ \A k \in 1..(Len(sel_tried) - 1) : SelectorsRun[k] \notin sel_resolving
        /\ sel_clicked # 0 =>
              /\ sel_clicked = Len(sel_tried)
              /\ SelectorsRun[sel_clicked] \in sel_resolving
        /\ e_current_step \in {"easy_apply_clicked", "application_submitted",
                               "application_submitted_no_confirmation"} =>
              sel_clicked # 0
        /\ sel_waited => sel_clicked # 0
        /\ (\A k \in 1..Len(SelectorsRun) : SelectorsRun[k] \notin sel_resolving) =>
              /\ ~e_success
              /\ e_error # ""
              /\ sel_clicked = 0
              /\ ~sel_waited

\* Submit passed two strategies, clicked the element of the third and did
\* not look up the fourth, which resolves as well.
C28_Witness ==
    /\ SelectorNodeRan
    /\ e_node = "END"
    /\ sel_tried = <<1, 2, 3>>
    /\ sel_clicked = 3
    /\ SubmitSelectors[4] \in sel_resolving
    /\ sel_waited

(***************************************************************************)
(* Further properties of the authentication graph, checked under Spec.     *)
(***************************************************************************)
\* C29: after verify_authentication, authenticated is true exactly when the
\* URL was read, contains "/jobs/" and does not contain "/login"; in every
\* other case, a failed reading included, authenticated is false and error
\* is not empty.
C29_AuthenticatedIffUrlPattern ==
    (InService /\ auth_node = "END") =>
        /\ authenticated <=>
              /\ auth_url.read = "yes"
              /\ auth_url.has_jobs
              /\ ~auth_url.has_login
        /\ ~authenticated => auth_error # ""

\* The URL read contains both patterns, and the run is not authenticated.
C29_Witness ==
    /\ InService
    /\ auth_node = "END"
    /\ auth_url = UrlReading("yes", TRUE, TRUE)
    /\ ~authenticated
    /\ auth_error = "Login failed - still on login page"

\* The edges of the authentication graph, from the entry point to END.
AuthEdges ==
    {<<"idle", "navigate_to_login">>,
     <<"navigate_to_login", "fill_credentials">>,
     <<"fill_credentials", "submit_login">>,
     <<"submit_login", "verify_authentication">>,
     <<"verify_authentication", "END">>}

\* C30: an authentication run passes navigate_to_login, fill_credentials,
\* submit_login and verify_authentication in this order, each once, and the
\* service goes on only after verify_authentication; a login form or Sign In
\* button that is not found is recorded in error and the run goes on to the
\* next node; every element is waited for by its one locator, at most once.
C30_AuthRunsFourNodesInOrder ==
    /\ [](InService =>
            /\ (svc_pc \in {"graph", "finally", "done"} /\ auth_node # "idle") =>
                  auth_node = "END"
            /\ \A i \in 1..Len(auth_lookups) :
                  /\ auth_lookups[i] \in {AuthLocators.email, AuthLocators.password, AuthLocators.sign_in}
                  /\ \A j \in 1..Len(auth_lookups) :
                        auth_lookups[i] = auth_lookups[j] => i = j)
    /\ [][(InService /\ auth_node' # auth_node) =>
             <<auth_node, auth_node'>> \in AuthEdges]_vars
    /\ [][(InService /\ auth_error' # auth_error) =>
             /\ auth_error' = "Login form not found - page structure may have changed" =>
                   auth_node' = "submit_login"
             /\ auth_error' = "Sign In button not found" =>
                   auth_node' = "verify_authentication"]_vars

\* The first wait of fill_credentials found no login form; the run went on
\* through submit_login and verify_authentication and ended.
C30_Witness ==
    /\ InService
    /\ auth_node = "END"
    /\ auth_lookups = <<AuthLocators.email, AuthLocators.sign_in>>
    /\ auth_error = "Login form not found - page structure may have changed"
    /\ svc_pc = "done"

(***************************************************************************)
(* Further properties of the search graph, checked under Spec.             *)
(***************************************************************************)
\* C31: a run of extract_jobs_from_page that reads the page appends the
\* first cards with a parsable identifier, in page order, up to what limit
\* still allows: a card whose identifier cannot be parsed is not appended,
\* takes no room under limit, adds nothing to errors, and the cards after it
\* are still processed.
C31_UnparsableCardIsSkipped ==
    [][(/\ SearchRunning
        /\ s_node = "extract_jobs_from_page"
        /\ s_node' = "check_pagination"
        /\ BrowserUsable
        /\ faults' = faults) =>
          LET parsable == SelectSeq(PageCards(b_page), LAMBDA id : id # 0)
              room == IF limit > Len(collected_jobs)
                      THEN limit - Len(collected_jobs) ELSE 0
          IN  /\ collected_jobs' =
                    collected_jobs \o SubSeq(parsable, 1, Min(Len(parsable), room))
              /\ total_found' = Len(collected_jobs')
              /\ s_errors' = s_errors]_vars

\* The first card of the page could not be parsed, the second was collected.
C31_Witness ==
    /\ entry = "search_graph"
    /\ s_node = "check_pagination"
    /\ badMode = "odd"
    /\ b_page = 1
    /\ CardsOnPage(1) = 2
    /\ collected_jobs = <<2>>
    /\ s_errors = <<>>

(***************************************************************************)
(* Further properties of analyze_form_node, checked under SpecAnalyze.     *)
(***************************************************************************)
\* The names of the radio groups of a form.
RadioNames(form) == {form[i].name : i \in {j \in 1..Len(form) : form[j].tag = "radio"}}

\* C32: after a run of analyze_form_node that succeeded, the question list
\* holds one question for every text field, every select field and every
\* radio group of the form, a field without a label included.
C32_OneQuestionPerField ==
    (entry = "analyze_form" /\ analyze_ok # <<>> /\ analyze_ok[Len(analyze_ok)]) =>
        Len(form_questions) =
            Len(SelectSeq(form_dom, LAMBDA f : f.tag \in {"text", "select"}))
            + Cardinality(RadioNames(form_dom))

(***************************************************************************)
(* Properties of _get_field_label, checked under SpecLabel.                *)
(***************************************************************************)
\* The values the four sources yield, in the order of the lookups; a linked
\* label is looked up only for an element with an id.
LabelCandidates ==
    (IF label_sources.has_id THEN label_sources.linked ELSE <<>>)
    \o label_sources.parent
    \o <<label_sources.placeholder, label_sources.aria_label>>

\* C33: the label returned is the first non-empty value among the linked
\* label, the label of the enclosing element, the placeholder and the
\* aria-label, in this order, and is empty only when none of them has one
\* (a lookup that raised apart).
C33_LabelIsFirstNonEmptySource ==
    (entry = "get_field_label" /\ label_done = "returned") =>
        LET values == SelectSeq(LabelCandidates, LAMBDA v : v # "")
        IN  label_result = IF values = <<>> THEN "" ELSE values[1]

\* C34: after a run of analyze_form_node that succeeded, every radio
\* question has as many options as its group has elements, and option i is
\* the label of element i.
C34_RadioOptionsAlignWithElements ==
    (entry = "analyze_form" /\ analyze_ok # <<>> /\ analyze_ok[Len(analyze_ok)]) =>
        LET radio_questions == SelectSeq(form_questions, LAMBDA q : q.type = "radio")
            elements == RadioElements(form_dom)
        IN  /\ Len(radio_questions) = Len(elements)
            /\ \A g \in 1..Len(radio_questions) :
                  radio_questions[g].options = elements[g]

C36_ResultsMatchIndexAtLoopTest ==
    (ApplyRunning /\ a_node = "has_more_applications") =>
        /\ Len(application_results) = current_application_index
        /\ current_application_index <= Len(applications)

\* The loop test after the second of two requests, one of which ran the
\* sub-workflow.
C36_Witness ==
    /\ entry = "apply_graph"
    /\ a_node = "has_more_applications"
    /\ HasMonthlySalaryAttribute(req_kind)
    /\ current_application_index = 2
    /\ Len(application_results) = 2
    /\ Len(applications) = 2

(***************************************************************************)
(* Further properties of the core agent, checked under SpecOrch.           *)
(***************************************************************************)
\* C37: in a run of the core agent, filtering starts only after every search
\* request has been attempted, and the apply call is made only after
\* filtering, only once, and not at all for an empty filtered list.
C37_SearchThenFilterThenApplyOnce ==
    OrchRunning =>
        /\ o_node \in {"filter_jobs_node", "apply_to_jobs_node", "END"} =>
              Len(search_returns) = Len(job_searches)
        /\ apply_call # "none" =>
              /\ o_node = "END"
              /\ filtered_jobs # <<>>

(***************************************************************************)
(* Browser cleanup of the service entry points, checked under SpecConc.    *)
(***************************************************************************)

\* C38: every browser a service call started is closed before that call
\* returns or raises, so once every call has returned or raised no browser
\* session is left open, and no call drives a session after the cleanup of
\* its own invocation.
C38_StartedBrowserIsClosedAtExit ==
    ConcRunning =>
        /\ (\A c \in Calls : c_pc[c] = "done") => live = {}
        /\ \A c \in Calls : c_pc[c] = "done" => c_driving[c] = 0

(***************************************************************************)
(* Pacing of the authentication nodes, checked under Spec.                 *)
(***************************************************************************)

\* C39: every user-visible action of a node (the navigation, typing into a
\* field, the click) is followed by a pacing delay whether the action
\* succeeded or raised: in the calls of a run, each action is directly
\* followed by random_delay.
C39_EveryActionIsFollowedByDelay ==
    \A i \in 1..Len(auth_calls) :
        auth_calls[i] \in {"get", "send_keys", "click"} =>
            /\ i < Len(auth_calls)
            /\ auth_calls[i + 1] = "random_delay"

(***************************************************************************)
(* Filtering of the found jobs, checked under SpecOrch.                    *)
(***************************************************************************)
\* sub[i..] can be picked, in order, from seq[j..]
RECURSIVE IsSubSeqFrom(_, _, _, _)
IsSubSeqFrom(sub, seq, i, j) ==
    IF i > Len(sub) THEN TRUE
    ELSE IF j > Len(seq) THEN FALSE
    ELSE IF sub[i] = seq[j] THEN IsSubSeqFrom(sub, seq, i + 1, j + 1)
    ELSE IsSubSeqFrom(sub, seq, i, j + 1)

ErrorCount(errors, text) ==
    Cardinality({i \in 1..Len(errors) : errors[i] = text})

=============================================================================
